---------------------------- MODULE Spec2Model ----------------------------
(***************************************************************************)
(* A model of the kidp control plane: the Database reconciler, the tenant  *)
(* resolver, the broker registry, the broker's provision/deprovision       *)
(* endpoints and the signed callback receiver.                             *)
(*                                                                         *)
(* Time is counted in seconds.  Strings stand for the Go strings of the    *)
(* records; "" is the empty string / nil reference.                        *)
(***************************************************************************)
EXTENDS Integers, Sequences, FiniteSets, TLC

(***************************************************************************)
(* Bounds of the model.                                                    *)
(***************************************************************************)
\* how many times the clock advances (by TickSeconds each time)
MaxTicks == 1
\* how many provision requests the brokers accept in one behaviour
MaxDispatch == 2
\* how many of the first Reconcile calls for a Database are kept on record
MaxPasses == 2
\* how many times users edit the spec of a Broker
MaxEdits == 2
TickSeconds == 1 * 60
StartTime == 10 * 60

(***************************************************************************)
(* The objects of the store.                                               *)
(***************************************************************************)
DBs == {"db1", "db2"}
\* both databases live in namespace dev
DbNamespace == "dev"
Engine(d) == IF d = "db1" THEN "postgresql" ELSE "mysql"

Brokers == {"b1", "b2"}
\* the brokers whose health changes while the model runs
Probed == {"b1"}
\* the namespace each Broker record lives in (BROKER_NAMESPACE of its process)
BrokerNamespace(b) == IF b = "b1" THEN "default" ELSE "platform"

Namespaces == {"dev", "ops"}
TenantNames == {"acme", "beta"}
TeamKeys == {<<"dev", "pt">>, <<"ops", "pt">>}
\* the key of a Team record as the work queue prints it: namespace/name
TeamId(k) == k[1] \o "/" \o k[2]
AppNames == {"a1", "a2", "a3", "a4", "a5", "a6", "a7"}
AppKeys == {<<"dev", a>> : a \in AppNames}

NoOwner == [kind |-> "", name |-> "", namespace |-> ""]
NoRef == [name |-> "", namespace |-> ""]

VARIABLES
    db,          \* [DBs -> Database record] (metadata, spec.owner, status)
    brokers,     \* [Brokers -> Broker record] (spec and status)
    tenants,     \* the names of the Tenant records that exist
    nsObj,       \* [Namespaces -> [exists, tenantLabel]]
    teams,       \* [TeamKeys -> [exists, tenantRef]]
    apps,        \* [AppKeys -> [exists, owner]]
    brokerCache, \* Registry.brokerCache: [Brokers -> cached Broker record]
    lastRefresh, \* Registry.lastRefresh
    now,         \* the wall clock
    inflight,    \* [DBs -> the reconcile blocked between accept and status write]
    deployments, \* the deployments the brokers accepted: [db, id, broker]
    deprovAcks,  \* deprovision requests answered 2xx: [db, id, broker]
    everProv,    \* the databases whose phase was ever written Provisioning
    removal,     \* [DBs -> what held when the record left the store]
    resp,        \* the callback receiver's last exchange: request and answer
    resolved,    \* the last answer of ResolveTenant
    passes,      \* [key -> what the first Reconcile calls for the key did]
    picked,      \* the last answer of Registry.SelectBroker
    probe,       \* [Brokers -> the BrokerReconciler pass between Get and Update]
    tenantObj,   \* [TenantNames -> Tenant record] (metadata and status)
    tenantNs,    \* [TenantNames -> the Namespace named tenant-<name>]
    teamObj,     \* [TeamKeys -> metadata and status of the Team record]
    notify,      \* the brokers' CallbackClient: attempts made and reports delivered
    refresh      \* the calls of Registry.RefreshCache under way, and the last list

vars == <<db, brokers, tenants, nsObj, teams, apps, brokerCache, lastRefresh,
          now, inflight, deployments, deprovAcks, everProv, removal,
          resp, resolved, passes, picked, probe, tenantObj, tenantNs,
          teamObj, notify, refresh>>

storeVars == <<tenants, nsObj, teams, apps>>
registryVars == <<brokerCache, lastRefresh>>
historyVars == <<deployments, deprovAcks, everProv, removal>>
obsVars == <<resp, resolved>>
\* the state of the other controllers and of the registry's callers
ctlVars == <<picked, probe, tenantObj, tenantNs, teamObj>>
\* the state of the processes that run beside the controllers
procVars == <<notify, refresh>>

(***************************************************************************)
(* Tenant resolver (internal/controller/tenantresolver.go).                *)
(***************************************************************************)
maxDepth == 6

Obj(kind, ns, name) == [kind |-> kind, namespace |-> ns, name |-> name]

Resolved(t) == [ok |-> TRUE, tenant |-> t, reason |-> ""]
\* Unresolvable with one reason for every failure
UnresolvableOneReason(why) == [ok |-> FALSE, tenant |-> "", reason |-> "tenant unresolved"]
Unresolvable(why) == [ok |-> FALSE, tenant |-> "", reason |-> why]

\* c.Get of a Tenant by name
GetTenant(name, missing) ==
    IF name \in tenants THEN Resolved(name) ELSE Unresolvable(missing)

TeamExists(ns, name) == <<ns, name>> \in TeamKeys /\ teams[<<ns, name>>].exists
AppExists(ns, name) == <<ns, name>> \in AppKeys /\ apps[<<ns, name>>].exists

\* spec.owner of a Database or an Application
OwnerOf(obj) ==
    CASE obj.kind = "Database" -> db[obj.name].owner
      [] obj.kind = "Application" -> apps[<<obj.namespace, obj.name>>].owner
      [] OTHER -> NoOwner

\* the namespace in which resolveTenant looks the owner up
OwnerLookupNamespace(obj) ==
    IF obj.kind = "Database" /\ OwnerOf(obj).namespace # ""
    THEN OwnerOf(obj).namespace
    ELSE obj.namespace

\* step 3: the namespace label fallback
NamespaceLabelIgnored(obj) == Unresolvable("tenant unresolved")
NamespaceLabelFallback(obj) ==
    IF /\ obj.namespace # ""
       /\ obj.namespace \in Namespaces
       /\ nsObj[obj.namespace].exists
       /\ nsObj[obj.namespace].tenantLabel # ""
    THEN GetTenant(nsObj[obj.namespace].tenantLabel, "label-tenant-missing")
    ELSE Unresolvable("tenant unresolved")

RECURSIVE resolveTenant(_, _)
resolveTenant(obj, depth) ==
    IF depth > maxDepth THEN Unresolvable("exceeded max depth")
    ELSE LET owner == OwnerOf(obj)
             ns == OwnerLookupNamespace(obj)
         IN
         \* 1) type-specific direct reference
         IF obj.kind = "Team" /\ teams[<<obj.namespace, obj.name>>].tenantRef # ""
         THEN GetTenant(teams[<<obj.namespace, obj.name>>].tenantRef,
                        "referenced tenant not found")
         ELSE IF obj.kind \in {"Application", "Database"} /\ owner.kind = "Tenant"
         THEN GetTenant(owner.name, "referenced tenant not found")
         \* 2) owner chain
         ELSE IF obj.kind \in {"Application", "Database"} /\ owner.kind = "Team"
         THEN IF TeamExists(ns, owner.name)
              THEN resolveTenant(Obj("Team", ns, owner.name), depth + 1)
              ELSE Unresolvable("owner team not found")
         ELSE IF obj.kind \in {"Application", "Database"} /\ owner.kind = "Application"
         THEN IF AppExists(ns, owner.name)
              THEN resolveTenant(Obj("Application", ns, owner.name), depth + 1)
              ELSE Unresolvable("owner application not found")
         \* 3) namespace label
         ELSE NamespaceLabelFallback(obj)

ResolveTenant(obj) == resolveTenant(obj, 0)

DbObj(d) == Obj("Database", DbNamespace, d)

(***************************************************************************)
(* Broker registry (pkg/brokerregistry).                                   *)
(***************************************************************************)
cacheTimeout == 30
\* the zero time.Time of a Registry that never refreshed
ZeroTime == 0

Criteria(rt, cp, region, provider) ==
    [resourceType |-> rt, cloudProvider |-> cp, region |-> region,
     provider |-> provider]

\* a Broker record that is not there (a cache slot holding nothing)
NoBroker ==
    [exists |-> FALSE, phase |-> "", cloudProvider |-> "", region |-> "",
     priority |-> 0, maxConcurrent |-> 0, active |-> 0, lastHeartbeat |-> -1,
     caps |-> {}, key |-> "", generation |-> 0, observedGeneration |-> 0]

\* matchesCriteria without the phase check, and without the provider check
matchesCriteriaAnyPhase(broker, criteria) ==
    /\ criteria.cloudProvider # "" => broker.cloudProvider = criteria.cloudProvider
    /\ (criteria.region # "" /\ broker.region # "") => broker.region = criteria.region
    /\ criteria.resourceType # "" =>
          \E cap \in broker.caps :
              /\ cap.resourceType = criteria.resourceType
              /\ criteria.provider # "" => criteria.provider \in cap.providers
    /\ ~(broker.maxConcurrent > 0 /\ broker.active >= broker.maxConcurrent)
matchesCriteriaAnyProvider(broker, criteria) ==
    /\ broker.phase = "Ready"
    /\ criteria.cloudProvider # "" => broker.cloudProvider = criteria.cloudProvider
    /\ (criteria.region # "" /\ broker.region # "") => broker.region = criteria.region
    /\ criteria.resourceType # "" =>
          \E cap \in broker.caps : cap.resourceType = criteria.resourceType
    /\ ~(broker.maxConcurrent > 0 /\ broker.active >= broker.maxConcurrent)
matchesCriteria(broker, criteria) ==
    /\ broker.phase = "Ready"
    /\ criteria.cloudProvider # "" => broker.cloudProvider = criteria.cloudProvider
    /\ (criteria.region # "" /\ broker.region # "") => broker.region = criteria.region
    /\ criteria.resourceType # "" =>
          \E cap \in broker.caps :
              /\ cap.resourceType = criteria.resourceType
              /\ criteria.provider # "" => criteria.provider \in cap.providers
    /\ ~(broker.maxConcurrent > 0 /\ broker.active >= broker.maxConcurrent)

\* the score of a broker; maxConcurrent is a power of two in every state of
\* the model, so the float arithmetic of the source is exact here
calculateScoreNoPriority(broker) ==
    (IF broker.maxConcurrent > 0
     THEN 100 - (100 * broker.active) \div broker.maxConcurrent
     ELSE 0)
    + (IF broker.lastHeartbeat = -1 THEN 0
       ELSE IF now - broker.lastHeartbeat < 60 THEN 50
       ELSE IF now - broker.lastHeartbeat < 5 * 60 THEN 25
       ELSE 0)
calculateScore(broker) ==
    broker.priority
    + (IF broker.maxConcurrent > 0
       THEN 100 - (100 * broker.active) \div broker.maxConcurrent
       ELSE 0)
    + (IF broker.lastHeartbeat = -1 THEN 0
       ELSE IF now - broker.lastHeartbeat < 60 THEN 50
       ELSE IF now - broker.lastHeartbeat < 5 * 60 THEN 25
       ELSE 0)

needsRefresh == now - lastRefresh > cacheTimeout

\* the cache SelectBroker reads: refreshed from the store when it expired
CacheForSelect == IF needsRefresh THEN brokers ELSE brokerCache
RefreshForSelect ==
    IF needsRefresh
    THEN brokerCache' = brokers /\ lastRefresh' = now
    ELSE UNCHANGED registryVars

Candidates(cache, criteria) ==
    {b \in Brokers : cache[b].exists /\ matchesCriteria(cache[b], criteria)}

\* selectBest keeps the first candidate of highest score; the candidates come
\* out of a Go map in an unspecified order, so any of the highest may be first
selectBest(cache, candidates) ==
    {b \in candidates :
        \A c \in candidates : calculateScore(cache[b]) >= calculateScore(cache[c])}

\* the brokers SelectBroker may return; empty: "no broker found"
SelectBroker(criteria) ==
    selectBest(CacheForSelect, Candidates(CacheForSelect, criteria))

(***************************************************************************)
(* The broker process (cmd/broker): provision, deprovision, key.           *)
(***************************************************************************)
RandIDs == <<"deploy-6f1a", "deploy-93c2", "deploy-e07b", "deploy-1d45">>
TimeIDs == <<"deploy-600", "deploy-660", "deploy-720", "deploy-780", "deploy-840">>

\* generateDeploymentID: 16 random bytes, taken to differ from every
\* identifier drawn before; or, when the random source fails, the clock
generateDeploymentID(randFails) ==
    IF randFails
    THEN TimeIDs[(now - StartTime) \div TickSeconds + 1]
    ELSE RandIDs[Cardinality(deployments) + 1]

(***************************************************************************)
(* Database reconciler (internal/controller/database_controller.go).       *)
(***************************************************************************)
NoFlight == [active |-> FALSE, id |-> "", broker |-> "", stale |-> FALSE]

\* one call of Reconcile: the branch it took, what it returned ("nil",
\* "error", or "pending" while the call has not returned) and whether it
\* called a broker
Pass(step, returned, brokerCall) ==
    [step |-> step, returned |-> returned, brokerCall |-> brokerCall]

\* the call of Reconcile for d is put on record
Logged(d, step, returned, brokerCall) ==
    passes' = IF Len(passes[d]) < MaxPasses
              THEN [passes EXCEPT ![d] = Append(@, Pass(step, returned, brokerCall))]
              ELSE passes

\* the call of Reconcile for d that was pending returns
Returned(d, returned) ==
    passes' = IF /\ Len(passes[d]) > 0
                 /\ passes[d][Len(passes[d])].returned = "pending"
              THEN [passes EXCEPT ![d][Len(passes[d])].returned = returned]
              ELSE passes

\* a Database record as the user creates it: the store numbers the first
\* version of its spec 1, the status is empty
NewDb(owner) ==
    [exists |-> TRUE, finalizer |-> FALSE, deleting |-> FALSE, label |-> "",
     owner |-> owner, phase |-> "", deploymentId |-> "", brokerRef |-> NoRef,
     cond |-> "", endpoint |-> "", secret |-> "",
     generation |-> 1, observedGeneration |-> 0]

\* what is left of a record the store dropped
GoneDb(d) == [NewDb(db[d].owner) EXCEPT !.exists = FALSE]

\* a write of another client makes the resourceVersion a blocked reconcile
\* holds stale
MarkStale(d) ==
    inflight' = [inflight EXCEPT ![d].stale = inflight[d].active]

\* the criteria both provisionDatabase and cleanupDatabase build
DbCriteria(d) == Criteria("Database", "", "", Engine(d))

\* whether some Broker record of the store declares the capability d needs
MatchingBrokerExists(d) ==
    \E b \in Brokers :
        /\ brokers[b].exists
        /\ \E cap \in brokers[b].caps :
              cap.resourceType = "Database" /\ Engine(d) \in cap.providers

\* Reconcile starts one pass for d: the key is not being reconciled
CanReconcile(d) == db[d].exists /\ ~inflight[d].active

\* Reconcile, lines 82-93: the finalizer is added, nothing else is written
ReconcileAddFinalizer(d) ==
    /\ Logged(d, "AddFinalizer", "nil", FALSE)
    /\ UNCHANGED ctlVars
    /\ UNCHANGED procVars
    /\ CanReconcile(d)
    /\ ~db[d].deleting
    /\ ~db[d].finalizer
    /\ db' = [db EXCEPT ![d].finalizer = TRUE]
    /\ UNCHANGED <<brokers, storeVars, registryVars, now, inflight,
                   historyVars, obsVars>>

\* Reconcile, lines 102-114: the tenant cannot be resolved
ReconcileSuspendUnwritten(d) ==
    /\ Logged(d, "Suspend", "nil", FALSE)
    /\ CanReconcile(d)
    /\ ~db[d].deleting
    /\ db[d].finalizer
    /\ ~ResolveTenant(DbObj(d)).ok
    /\ UNCHANGED <<db, brokers, storeVars, registryVars, now, inflight,
                   historyVars, obsVars, ctlVars, procVars>>
ReconcileSuspend(d) ==
    /\ Logged(d, "Suspend", "nil", FALSE)
    /\ UNCHANGED ctlVars
    /\ UNCHANGED procVars
    /\ CanReconcile(d)
    /\ ~db[d].deleting
    /\ db[d].finalizer
    /\ ~ResolveTenant(DbObj(d)).ok
    /\ db' = [db EXCEPT ![d].phase = "Suspended"]
    /\ UNCHANGED <<brokers, storeVars, registryVars, now, inflight,
                   historyVars, obsVars>>

\* Reconcile, lines 116-132: the tenant label is stamped
ReconcileLabelUnwritten(d) ==
    /\ Logged(d, "Label", "nil", FALSE)
    /\ CanReconcile(d)
    /\ ~db[d].deleting
    /\ db[d].finalizer
    /\ ResolveTenant(DbObj(d)).ok
    /\ db[d].label # ResolveTenant(DbObj(d)).tenant
    /\ UNCHANGED <<db, brokers, storeVars, registryVars, now, inflight,
                   historyVars, obsVars, ctlVars, procVars>>
ReconcileLabel(d) ==
    /\ Logged(d, "Label", "nil", FALSE)
    /\ UNCHANGED ctlVars
    /\ UNCHANGED procVars
    /\ CanReconcile(d)
    /\ ~db[d].deleting
    /\ db[d].finalizer
    /\ ResolveTenant(DbObj(d)).ok
    /\ db[d].label # ResolveTenant(DbObj(d)).tenant
    /\ db' = [db EXCEPT ![d].label = ResolveTenant(DbObj(d)).tenant]
    /\ UNCHANGED <<brokers, storeVars, registryVars, now, inflight,
                   historyVars, obsVars>>

\* Reconcile, line 136: a deployment is recorded
NeverProvisioned(d) == FALSE
ProvisionedWhenReady(d) == db[d].phase = "Ready"
AlreadyProvisioned(d) == db[d].deploymentId # ""

\* the pass gets past the finalizer, the tenant and the label
PastLabelUnchecked(d) ==
    /\ CanReconcile(d)
    /\ ~db[d].deleting
    /\ db[d].finalizer
    /\ ResolveTenant(DbObj(d)).ok
PastLabelNoBarrier(d) ==
    /\ CanReconcile(d)
    /\ ~db[d].deleting
    /\ ResolveTenant(DbObj(d)).ok
    /\ db[d].label = ResolveTenant(DbObj(d)).tenant
PastLabel(d) ==
    /\ CanReconcile(d)
    /\ ~db[d].deleting
    /\ db[d].finalizer
    /\ ResolveTenant(DbObj(d)).ok
    /\ db[d].label = ResolveTenant(DbObj(d)).tenant

\* Reconcile, lines 134-141: provisioning is under way or done, no work
ReconcileIdle(d) ==
    /\ Logged(d, "Idle", "nil", FALSE)
    /\ UNCHANGED ctlVars
    /\ UNCHANGED procVars
    /\ PastLabel(d)
    /\ AlreadyProvisioned(d)
    /\ UNCHANGED <<db, brokers, storeVars, registryVars, now, inflight,
                   historyVars, obsVars>>

\* lines 143-160 with SelectBroker finding no broker: the phase is written
\* Provisioning, then Failed, and the error is returned
ReconcileSelectFails(d) ==
    /\ Logged(d, "Provision", "error", FALSE)
    /\ UNCHANGED ctlVars
    /\ UNCHANGED procVars
    /\ PastLabel(d)
    /\ ~AlreadyProvisioned(d)
    /\ SelectBroker(DbCriteria(d)) = {}
    /\ RefreshForSelect
    /\ db' = [db EXCEPT ![d].phase = "Failed"]
    /\ everProv' = everProv \cup {d}
    /\ UNCHANGED <<brokers, storeVars, now, inflight, deployments,
                   deprovAcks, removal, obsVars>>

\* lines 143-160 with the provision call failing (transport error, non-2xx):
\* the phase is written Provisioning, then Failed, and the error is returned
ReconcileProvisionFails(d) ==
    /\ Logged(d, "Provision", "error", TRUE)
    /\ UNCHANGED ctlVars
    /\ UNCHANGED procVars
    /\ PastLabel(d)
    /\ ~AlreadyProvisioned(d)
    /\ SelectBroker(DbCriteria(d)) # {}
    /\ RefreshForSelect
    /\ db' = [db EXCEPT ![d].phase = "Failed"]
    /\ everProv' = everProv \cup {d}
    /\ UNCHANGED <<brokers, storeVars, now, inflight, deployments,
                   deprovAcks, removal, obsVars>>

\* lines 143-150 and provisionDatabase up to line 354: the phase is written
\* Provisioning, a broker is selected and accepts the request
ReconcileDispatch(d) ==
    /\ Logged(d, "Provision", "pending", TRUE)
    /\ UNCHANGED ctlVars
    /\ UNCHANGED procVars
    /\ PastLabel(d)
    /\ ~AlreadyProvisioned(d)
    /\ Cardinality(deployments) < MaxDispatch
    /\ \E b \in SelectBroker(DbCriteria(d)), randFails \in BOOLEAN :
          /\ deployments' = deployments \cup
                {[db |-> d, id |-> generateDeploymentID(randFails), broker |-> b]}
          /\ inflight' = [inflight EXCEPT ![d] =
                [active |-> TRUE, id |-> generateDeploymentID(randFails),
                 broker |-> b, stale |-> FALSE]]
    /\ RefreshForSelect
    /\ db' = [db EXCEPT ![d].phase = "Provisioning"]
    /\ everProv' = everProv \cup {d}
    /\ UNCHANGED <<brokers, storeVars, now, deprovAcks, removal, obsVars>>

ReconcileRecordIdOnly(d) ==
    /\ Returned(d, IF db[d].exists /\ ~inflight[d].stale THEN "nil" ELSE "error")
    /\ UNCHANGED ctlVars
    /\ UNCHANGED procVars
    /\ inflight[d].active
    /\ IF db[d].exists /\ ~inflight[d].stale
       THEN db' = [db EXCEPT ![d].deploymentId = inflight[d].id]
       ELSE UNCHANGED db
    /\ inflight' = [inflight EXCEPT ![d] = NoFlight]
    /\ UNCHANGED <<brokers, storeVars, registryVars, now, historyVars, obsVars>>

\* provisionDatabase, lines 356-373: the status update that records the
\* deployment; it fails when the record changed or left the store meanwhile,
\* and then the update to Failed (lines 155-158) fails the same way
ReconcileRecord(d) ==
    /\ Returned(d, IF db[d].exists /\ ~inflight[d].stale THEN "nil" ELSE "error")
    /\ UNCHANGED ctlVars
    /\ UNCHANGED procVars
    /\ inflight[d].active
    /\ IF db[d].exists /\ ~inflight[d].stale
       THEN db' = [db EXCEPT ![d].deploymentId = inflight[d].id,
                             ![d].brokerRef =
                                 [name |-> inflight[d].broker,
                                  namespace |-> BrokerNamespace(inflight[d].broker)]]
       ELSE UNCHANGED db
    /\ inflight' = [inflight EXCEPT ![d] = NoFlight]
    /\ UNCHANGED <<brokers, storeVars, registryVars, now, historyVars, obsVars>>

\* the manager stops between the broker's answer and the status update
ReconcileCrash(d) ==
    /\ UNCHANGED passes
    /\ UNCHANGED ctlVars
    /\ UNCHANGED procVars
    /\ inflight[d].active
    /\ inflight' = [inflight EXCEPT ![d] = NoFlight]
    /\ UNCHANGED <<db, brokers, storeVars, registryVars, now, historyVars,
                   obsVars>>

\* cleanupDatabase, lines 211-227: the broker recorded in the status, when
\* its record can still be read
RecordedBrokerIgnored(d) == {}
RecordedBroker(d) ==
    IF /\ db[d].brokerRef.name # ""
       /\ db[d].brokerRef.name \in Brokers
       /\ brokers[db[d].brokerRef.name].exists
       /\ BrokerNamespace(db[d].brokerRef.name) =
             (IF db[d].brokerRef.namespace = "" THEN DbNamespace
              ELSE db[d].brokerRef.namespace)
    THEN {db[d].brokerRef.name}
    ELSE {}

\* cleanupDatabase, lines 229-242: the brokers the deprovision may go to
DeprovisionTargets(d) ==
    IF RecordedBroker(d) # {} THEN RecordedBroker(d)
    ELSE SelectBroker(DbCriteria(d))

\* cleanupDatabase reads the registry only when the recorded broker is gone
RefreshForCleanup(d) ==
    IF RecordedBroker(d) = {} THEN RefreshForSelect
    ELSE UNCHANGED registryVars

\* cleanupDatabase, line 207: whether a deprovision call is attempted at all
NeedsDeprovision(d) == db[d].deploymentId # ""

\* the finalizer is left in place and the record stays
DropRecordWithheld(d) == UNCHANGED <<db, removal>>
\* the finalizer is removed (lines 193-197) and the store drops the record
DropRecord(d) ==
    /\ db' = [db EXCEPT ![d] = GoneDb(d)]
    /\ removal' = [removal EXCEPT ![d] =
          [gone |-> TRUE, matching |-> MatchingBrokerExists(d)]]

\* handleDeletion entered with the finalizer attached
Deleting(d) == CanReconcile(d) /\ db[d].deleting /\ db[d].finalizer

\* handleDeletion with no deployment recorded: cleanup calls nobody
ReconcileDeleteUnprovisioned(d) ==
    /\ Logged(d, "Delete", "nil", FALSE)
    /\ UNCHANGED ctlVars
    /\ UNCHANGED procVars
    /\ Deleting(d)
    /\ ~NeedsDeprovision(d)
    /\ DropRecord(d)
    /\ UNCHANGED <<brokers, storeVars, registryVars, now, inflight,
                   deployments, deprovAcks, everProv, obsVars>>

\* handleDeletion with no broker to call: the deprovision is skipped
ReconcileDeleteSkip(d) ==
    /\ Logged(d, "Delete", "nil", FALSE)
    /\ UNCHANGED ctlVars
    /\ UNCHANGED procVars
    /\ Deleting(d)
    /\ NeedsDeprovision(d)
    /\ DeprovisionTargets(d) = {}
    /\ RefreshForCleanup(d)
    /\ DropRecord(d)
    /\ UNCHANGED <<brokers, storeVars, now, inflight, deployments,
                   deprovAcks, everProv, obsVars>>

\* handleDeletion with the broker answering the deprovision request 2xx
ReconcileDeleteAcked(d) ==
    /\ Logged(d, "Delete", "nil", TRUE)
    /\ UNCHANGED ctlVars
    /\ UNCHANGED procVars
    /\ Deleting(d)
    /\ NeedsDeprovision(d)
    /\ \E b \in DeprovisionTargets(d) :
          deprovAcks' = deprovAcks \cup
              {[db |-> d, id |-> db[d].deploymentId, broker |-> b]}
    /\ RefreshForCleanup(d)
    /\ DropRecord(d)
    /\ UNCHANGED <<brokers, storeVars, now, inflight, deployments,
                   everProv, obsVars>>

ReconcileDeleteFailsDrops(d) ==
    /\ Logged(d, "Delete", "error", TRUE)
    /\ UNCHANGED ctlVars
    /\ UNCHANGED procVars
    /\ Deleting(d)
    /\ NeedsDeprovision(d)
    /\ DeprovisionTargets(d) # {}
    /\ RefreshForCleanup(d)
    /\ DropRecord(d)
    /\ UNCHANGED <<brokers, storeVars, now, inflight, deployments,
                   deprovAcks, everProv, obsVars>>

\* handleDeletion with the deprovision call failing (transport, non-2xx):
\* the error is returned and the finalizer stays
ReconcileDeleteFails(d) ==
    /\ Logged(d, "Delete", "error", TRUE)
    /\ UNCHANGED ctlVars
    /\ UNCHANGED procVars
    /\ Deleting(d)
    /\ NeedsDeprovision(d)
    /\ DeprovisionTargets(d) # {}
    /\ RefreshForCleanup(d)
    /\ UNCHANGED <<db, brokers, storeVars, now, inflight, historyVars,
                   obsVars>>

(***************************************************************************)
(* The environment of the lifecycle: users, time, broker health.           *)
(***************************************************************************)
\* a user deletes the database: the store sets the deletion timestamp, or
\* drops the record at once when no finalizer holds it
UserDelete(d) ==
    /\ UNCHANGED passes
    /\ UNCHANGED ctlVars
    /\ UNCHANGED procVars
    /\ db[d].exists
    /\ ~db[d].deleting
    /\ IF db[d].finalizer
       THEN db' = [db EXCEPT ![d].deleting = TRUE] /\ UNCHANGED removal
       ELSE DropRecord(d)
    /\ MarkStale(d)
    /\ UNCHANGED <<brokers, storeVars, registryVars, now, deployments,
                   deprovAcks, everProv, obsVars>>

Tick ==
    /\ UNCHANGED passes
    /\ UNCHANGED ctlVars
    /\ UNCHANGED procVars
    /\ now < StartTime + MaxTicks * TickSeconds
    /\ now' = now + TickSeconds
    /\ UNCHANGED <<db, brokers, storeVars, registryVars, inflight,
                   historyVars, obsVars>>

\* a write of another client makes the resourceVersion a BrokerReconciler
\* pass holds stale
MarkProbeStale(b) ==
    probe' = [probe EXCEPT ![b].stale = probe[b].active]

\* BrokerReconciler.Reconcile with nothing written between its Get and its
\* status update: the health probe and the status it writes
BrokerReconcile(b, healthy) ==
    /\ UNCHANGED passes
    /\ UNCHANGED ctlVars
    /\ UNCHANGED procVars
    /\ brokers[b].exists
    /\ ~probe[b].active
    /\ brokers' = [brokers EXCEPT ![b] =
          IF healthy
          THEN [@ EXCEPT !.phase = "Ready", !.lastHeartbeat = now,
                         !.observedGeneration = brokers[b].generation]
          ELSE [@ EXCEPT !.phase = "Unhealthy",
                         !.observedGeneration = brokers[b].generation]]
    /\ UNCHANGED <<db, storeVars, registryVars, now, inflight, historyVars,
                   obsVars>>

\* a broker is retired: its record is deleted
DeleteBroker(b) ==
    /\ UNCHANGED passes
    /\ MarkProbeStale(b)
    /\ UNCHANGED <<picked, tenantObj, tenantNs,
                   teamObj, procVars>>
    /\ brokers[b].exists
    /\ brokers' = [brokers EXCEPT ![b] = NoBroker]
    /\ UNCHANGED <<db, storeVars, registryVars, now, inflight, historyVars,
                   obsVars>>

\* a Tenant record is created
CreateTenant(t) ==
    /\ UNCHANGED passes
    /\ UNCHANGED ctlVars
    /\ UNCHANGED procVars
    /\ t \notin tenants
    /\ tenants' = tenants \cup {t}
    /\ UNCHANGED <<db, brokers, nsObj, teams, apps, registryVars, now,
                   inflight, historyVars, obsVars>>

(***************************************************************************)
(* Signed callbacks: the broker's client (pkg/broker/callback.go) and the  *)
(* receiver (webhook Server in internal/controller/tenant_controller.go).  *)
(***************************************************************************)
\* Ed25519 key pairs, each named by its public half; KX belongs to no broker
Keys == {"K1", "K2", "KX"}
\* the key pair a broker process signs with (BROKER_PRIVATE_KEY)
BrokerKey(b) == IF b = "b1" THEN "K1" ELSE "K2"

\* the fields of a CallbackRequest the receiver reads
Payload(id, rt, ns, status, phase, endpoint, secret) ==
    [deploymentId |-> id, resourceType |-> rt, namespace |-> ns,
     status |-> status, phase |-> phase, endpoint |-> endpoint,
     connectionSecret |-> secret]

\* json.Marshal: the one byte layout the encoder gives a payload
Marshal(payload) == [layout |-> "compact", payload |-> payload]
\* json Decode: fails on bytes that are no JSON document; any layout of the
\* same document decodes to the same struct
Decodes(body) == body.layout # "malformed"
Decode(body) == body.payload

\* time.Format(time.RFC3339) and time.Parse(time.RFC3339, _)
FormatRFC3339(t) == [form |-> "rfc3339", t |-> t]
ParsesRFC3339(header) == header.form = "rfc3339"
MissingStamp == [form |-> "", t |-> 0]
GarbageStamp == [form |-> "garbage", t |-> 0]

\* signCallback: an Ed25519 signature over timestamp + "." + body
signCallback(key, timestamp, body) ==
    [form |-> "sig", key |-> key, msg |-> <<timestamp, body>>]
MissingSig == [form |-> "", key |-> "", msg |-> <<>>]
GarbageSig == [form |-> "garbage", key |-> "", msg |-> <<>>]

\* verifySignature: the signature and the key decode, the key has the size
\* of a public key, and ed25519.Verify accepts: the signature was made with
\* the private half of that key over these very bytes
verifySignatureSkipped(body, timestamp, signature, pub) == TRUE
verifySignature(body, timestamp, signature, pub) ==
    /\ signature.form = "sig"
    /\ pub \in Keys
    /\ signature.key = pub
    /\ signature.msg = <<timestamp, body>>

\* the request the broker's client sends for a status it stamped at time t
SentAt(b, payload, t) ==
    [method |-> "POST", body |-> Marshal(payload), brokerName |-> b,
     timestamp |-> FormatRFC3339(t),
     signature |-> signCallback(BrokerKey(b), FormatRFC3339(t), Marshal(payload)),
     publicKey |-> BrokerKey(b)]

\* CallbackClient.NotifyStatus: stamped with the clock, signed, with the
\* public key in the Public-Key header
NotifyStatus(b, payload) == SentAt(b, payload, now)

\* handleCallback, line 286: the replay window
OutsideSkewSwapped(t) == now - t > 1 * 60 \/ t - now > 5 * 60
OutsideSkew(t) == now - t > 5 * 60 \/ t - now > 1 * 60

\* handleCallback, line 294: the Broker record is read from this namespace
CallbackBrokerNamespace == "default"
BrokerKnown(name) ==
    /\ name \in Brokers
    /\ brokers[name].exists
    /\ BrokerNamespace(name) = CallbackBrokerNamespace

\* handleCallback, lines 300-310: the key the signature is verified under
HeaderKeyFirst(req) ==
    IF req.publicKey # "" THEN req.publicKey ELSE brokers[req.brokerName].key
VerificationKey(req) ==
    IF brokers[req.brokerName].key # ""
    THEN brokers[req.brokerName].key
    ELSE req.publicKey

\* client.List returns the records of the namespace in key order
ListOrder == <<"db1", "db2">>

\* handleDatabaseCallback, lines 357-372: the first listed record whose
\* status carries the deployment ID of the callback
FindUnreportedDatabase(payload) ==
    LET hits == {i \in 1..Len(ListOrder) :
                    /\ db[ListOrder[i]].exists
                    /\ payload.namespace = DbNamespace
                    /\ db[ListOrder[i]].deploymentId = payload.deploymentId
                    /\ db[ListOrder[i]].phase # payload.phase}
    IN IF hits = {} THEN {}
       ELSE {ListOrder[CHOOSE i \in hits : \A j \in hits : i <= j]}
FindDatabase(payload) ==
    LET hits == {i \in 1..Len(ListOrder) :
                    /\ db[ListOrder[i]].exists
                    /\ payload.namespace = DbNamespace
                    /\ db[ListOrder[i]].deploymentId = payload.deploymentId}
    IN IF hits = {} THEN {}
       ELSE {ListOrder[CHOOSE i \in hits : \A j \in hits : i <= j]}

\* handleDatabaseCallback, lines 374-412: the status the callback leaves
ApplyCallback(rec, payload) ==
    IF payload.status = "success" /\ payload.phase = "Ready"
    THEN [rec EXCEPT !.phase = payload.phase,
                     !.endpoint = payload.endpoint,
                     !.secret = IF payload.connectionSecret # ""
                                THEN payload.connectionSecret ELSE @,
                     !.cond = "True"]
    ELSE IF payload.status = "failed"
    THEN [rec EXCEPT !.phase = payload.phase, !.cond = "False"]
    ELSE [rec EXCEPT !.phase = payload.phase]

\* the HTTP status handleCallback answers with
CallbackCode(req) ==
    IF req.method # "POST" THEN 405
    ELSE IF ~Decodes(req.body) THEN 400
    ELSE IF \/ req.brokerName = ""
            \/ req.timestamp.form = ""
            \/ req.signature.form = "" THEN 401
    ELSE IF ~ParsesRFC3339(req.timestamp) THEN 400
    ELSE IF OutsideSkew(req.timestamp.t) THEN 401
    ELSE IF ~BrokerKnown(req.brokerName) THEN 401
    ELSE IF VerificationKey(req) = "" THEN 401
    ELSE IF ~verifySignature(Marshal(Decode(req.body)), req.timestamp,
                             req.signature, VerificationKey(req)) THEN 401
    ELSE IF Decode(req.body).resourceType # "database" THEN 400
    ELSE IF FindDatabase(Decode(req.body)) = {} THEN 500
    ELSE 200

\* handleCallback: the only write is the status update of the record found
handleCallback(req) ==
    /\ UNCHANGED passes
    /\ UNCHANGED ctlVars
    /\ IF CallbackCode(req) = 200
       THEN \E d \in FindDatabase(Decode(req.body)) :
               /\ db' = [db EXCEPT ![d] = ApplyCallback(db[d], Decode(req.body))]
               /\ MarkStale(d)
       ELSE UNCHANGED <<db, inflight>>
    /\ UNCHANGED <<brokers, storeVars, registryVars, now, historyVars,
                   resolved>>

\* the status reports a broker sends for a deployment it accepted
StatusPayload(dep, outcome) ==
    IF outcome = "Ready"
    THEN Payload(dep.id, "database", DbNamespace, "success", "Ready",
                 "db.internal", "db-conn")
    ELSE Payload(dep.id, "database", DbNamespace, "failed", "Failed", "", "")

\* a broker reports on one of its deployments and the receiver handles it
BrokerNotifies(dep, outcome) ==
    /\ handleCallback(NotifyStatus(dep.broker, StatusPayload(dep, outcome)))
    /\ UNCHANGED resp
    /\ UNCHANGED procVars

(***************************************************************************)
(* The lifecycle specification: database db1 in namespace dev, two         *)
(* brokers, the reconciler, the callbacks, the users and the clock.        *)
(***************************************************************************)
ReadyBroker(b) ==
    [exists |-> TRUE, phase |-> "Ready", cloudProvider |-> "azure",
     region |-> "", priority |-> 100, maxConcurrent |-> 0, active |-> 0,
     lastHeartbeat |-> StartTime,
     caps |-> {[resourceType |-> "Database",
                providers |-> IF b = "b1" THEN {"postgresql", "mysql"}
                              ELSE {"postgresql"}]},
     key |-> IF b = "b1" THEN "K1" ELSE "K2",
     generation |-> 1, observedGeneration |-> 1]

\* a Database nobody created
AbsentDb == [NewDb(NoOwner) EXCEPT !.exists = FALSE]

NoRemoval == [gone |-> FALSE, matching |-> FALSE]
NoResp == [code |-> 0]
NotAsked == [asked |-> FALSE]
NotPicked == [asked |-> FALSE]
NoProbe == [active |-> FALSE, generation |-> 0, stale |-> FALSE]
\* the identifiers a broker may hand out
DeploymentIds ==
    {RandIDs[i] : i \in 1..Len(RandIDs)} \cup {TimeIDs[i] : i \in 1..Len(TimeIDs)}
\* the deployments a broker may accept
AllDeployments == [db : DBs, id : DeploymentIds, broker : Brokers]
\* no status report was attempted yet
NoNotify == [attempts |-> [dep \in AllDeployments |-> 0], delivered |-> {}]
\* the goroutines that call the registry
Callers == {"w1", "w2"}
\* a caller that is not inside RefreshCache
NoList == [active |-> FALSE, items |-> [b \in Brokers |-> NoBroker]]
\* no RefreshCache call ran yet: the cache is the empty map of NewRegistry
NoRefresh ==
    [list |-> [c \in Callers |-> NoList],
     latest |-> [b \in Brokers |-> NoBroker],
     listed |-> {[b \in Brokers |-> NoBroker]}]
\* a Tenant record as the user creates it
NewTenant == [finalizer |-> FALSE, deleting |-> FALSE, phase |-> ""]
\* metadata and status of a Team record as the user creates it
NewTeam == [finalizer |-> FALSE, deleting |-> FALSE, phase |-> ""]
\* a Namespace that is not there
NoNamespace == [exists |-> FALSE, tenantLabel |-> ""]

\* nothing has run yet: no Reconcile call, no selection, no probe
InitCtl ==
    /\ passes = [k \in DBs \cup TenantNames \cup {TeamId(t) : t \in TeamKeys} |-> <<>>]
    /\ picked = NotPicked
    /\ probe = [b \in Brokers |-> NoProbe]
    /\ tenantObj = [t \in TenantNames |-> NewTenant]
    /\ tenantNs = [t \in TenantNames |-> NoNamespace]
    /\ teamObj = [k \in TeamKeys |-> NewTeam]
    /\ notify = NoNotify
    /\ refresh = NoRefresh

InitStore ==
    /\ nsObj = [n \in Namespaces |->
                  [exists |-> TRUE, tenantLabel |-> IF n = "dev" THEN "acme" ELSE ""]]
    /\ teams = [k \in TeamKeys |-> [exists |-> FALSE, tenantRef |-> ""]]
    /\ apps = [k \in AppKeys |-> [exists |-> FALSE, owner |-> NoOwner]]

InitHistory ==
    /\ inflight = [d \in DBs |-> NoFlight]
    /\ deployments = {}
    /\ deprovAcks = {}
    /\ everProv = {}
    /\ removal = [d \in DBs |-> NoRemoval]
    /\ resp = NoResp
    /\ resolved = NotAsked
    /\ InitCtl

Init ==
    /\ db = [d \in DBs |-> IF d = "db1" THEN NewDb(NoOwner) ELSE AbsentDb]
    /\ brokers = [b \in Brokers |-> ReadyBroker(b)]
    /\ tenants \in {{}, {"acme"}}
    /\ InitStore
    /\ brokerCache = [b \in Brokers |-> NoBroker]
    /\ lastRefresh = ZeroTime
    /\ now = StartTime
    /\ InitHistory

Reconcile(d) ==
    \/ ReconcileAddFinalizer(d)
    \/ ReconcileSuspend(d)
    \/ ReconcileLabel(d)
    \/ ReconcileIdle(d)
    \/ ReconcileSelectFails(d)
    \/ ReconcileProvisionFails(d)
    \/ ReconcileDispatch(d)
    \/ ReconcileRecord(d)
    \/ ReconcileCrash(d)
    \/ ReconcileDeleteUnprovisioned(d)
    \/ ReconcileDeleteSkip(d)
    \/ ReconcileDeleteAcked(d)
    \/ ReconcileDeleteFails(d)

Next ==
    \/ \E d \in DBs : Reconcile(d)
    \/ \E d \in DBs : UserDelete(d)
    \/ Tick
    \/ \E b \in Probed, healthy \in BOOLEAN : BrokerReconcile(b, healthy)
    \/ \E b \in Brokers : DeleteBroker(b)
    \/ CreateTenant("acme")
    \/ \E dep \in deployments, outcome \in {"Ready", "Failed"} :
          BrokerNotifies(dep, outcome)

Spec == Init /\ [][Next]_vars

(***************************************************************************)
(* The provisioning specification: db1 and db2, both of tenant acme, are   *)
(* provisioned side by side through healthy brokers; requests fail, the    *)
(* manager crashes, reconciles are retried.                                *)
(***************************************************************************)
InitPair ==
    /\ db = [d \in DBs |-> NewDb(NoOwner)]
    /\ brokers = [b \in Brokers |-> ReadyBroker(b)]
    /\ tenants = {"acme"}
    /\ InitStore
    /\ brokerCache = [b \in Brokers |-> NoBroker]
    /\ lastRefresh = ZeroTime
    /\ now = StartTime
    /\ InitHistory

NextPair ==
    \/ \E d \in DBs :
          \/ ReconcileAddFinalizer(d)
          \/ ReconcileLabel(d)
          \/ ReconcileIdle(d)
          \/ ReconcileProvisionFails(d)
          \/ ReconcileDispatch(d)
          \/ ReconcileRecord(d)
          \/ ReconcileCrash(d)
    \/ Tick

SpecPair == InitPair /\ [][NextPair]_vars

(***************************************************************************)
(* The callback specification: the receiver facing whatever the network    *)
(* delivers, honest reports (fresh, delayed, replayed) and forged ones.    *)
(***************************************************************************)
\* db1 was dispatched to b1 and its deployment recorded; db2 is new
ProvisionedDb ==
    [NewDb(NoOwner) EXCEPT !.finalizer = TRUE, !.label = "acme",
                           !.phase = "Provisioning",
                           !.deploymentId = RandIDs[1],
                           !.brokerRef = [name |-> "b1",
                                          namespace |-> BrokerNamespace("b1")]]

\* the times a delivered request may be stamped with
Stamps ==
    {StartTime - 6 * 60, StartTime - 5 * 60, StartTime, StartTime + 60,
     StartTime + 2 * 60}

ReadyPayload == StatusPayload([id |-> RandIDs[1]], "Ready")
FailedPayload == StatusPayload([id |-> RandIDs[1]], "Failed")
\* the report a broker sends when a deprovision is through (BROKER_API.md,
\* callback phases)
DeletedPayload ==
    Payload(RandIDs[1], "database", DbNamespace, "success", "Deleted", "", "")
\* a report that names no deployment, one for a resource type the receiver
\* does not route, and one for a deployment nobody recorded
Payloads ==
    {ReadyPayload, FailedPayload, DeletedPayload,
     [ReadyPayload EXCEPT !.deploymentId = ""],
     [ReadyPayload EXCEPT !.resourceType = "cache"],
     [ReadyPayload EXCEPT !.deploymentId = RandIDs[2]]}

\* what the brokers' clients send, delivered at once or late
HonestRequests ==
    {SentAt("b1", p, StartTime) : p \in Payloads}
    \cup {SentAt("b1", ReadyPayload, t) : t \in Stamps}
    \cup {SentAt("b2", ReadyPayload, StartTime)}

\* in how many of body, timestamp, signature and key header r differs from q
Deviations(r, q) ==
    (IF r.body # q.body THEN 1 ELSE 0)
    + (IF r.timestamp # q.timestamp THEN 1 ELSE 0)
    + (IF r.signature # q.signature THEN 1 ELSE 0)
    + (IF r.publicKey # q.publicKey THEN 1 ELSE 0)

\* requests built by somebody else in the name of b1, out of one honest
\* request: headers left out or garbled, signatures by a foreign key or
\* lifted from another request, bodies re-serialised or cut
ForgedRequests ==
    {r \in [method : {"POST"},
            body : {Marshal(ReadyPayload),
                    [layout |-> "spaced", payload |-> ReadyPayload],
                    [layout |-> "malformed", payload |-> ReadyPayload]},
            brokerName : {"b1"},
            timestamp : {MissingStamp, GarbageStamp, FormatRFC3339(StartTime)},
            signature : {MissingSig, GarbageSig} \cup
                {signCallback(k, ts, Marshal(ReadyPayload)) :
                    k \in {"K1", "KX"},
                    ts \in {FormatRFC3339(StartTime),
                            FormatRFC3339(StartTime - 6 * 60)}},
            publicKey : {"", "K1", "KX"}] :
        Deviations(r, SentAt("b1", ReadyPayload, StartTime)) \in {1, 2}}
    \cup {[SentAt("b1", ReadyPayload, StartTime) EXCEPT !.brokerName = n] :
            n \in {"", "ghost"}}
    \cup {[SentAt("b1", ReadyPayload, StartTime) EXCEPT !.method = "GET"],
          [SentAt("b1", ReadyPayload, StartTime) EXCEPT !.publicKey = "garbage"],
          [SentAt("b1", ReadyPayload, StartTime) EXCEPT
              !.signature = signCallback("K1", FormatRFC3339(StartTime),
                               [layout |-> "spaced", payload |-> ReadyPayload]),
              !.body = [layout |-> "spaced", payload |-> ReadyPayload]]}

Requests == HonestRequests \cup ForgedRequests

\* the same request arrives again, the first having been answered 200 and
\* neither the databases nor the brokers having been written since
IsReplay(req) ==
    /\ resp.code = 200
    /\ resp.req = req
    /\ resp.after = db
    /\ resp.brokers = brokers

\* the receiver handles req; the exchange is kept for inspection
Exchange(req) ==
    /\ handleCallback(req)
    /\ resp' = [req |-> req, code |-> CallbackCode(req), at |-> now,
                brokers |-> brokers, before |-> db, after |-> db',
                replay |-> IsReplay(req)]
    /\ UNCHANGED procVars

\* main of the broker process: the public key is written to the status of
\* the Broker record when the record holds another key or none
BrokerStart(b) ==
    /\ UNCHANGED passes
    /\ MarkProbeStale(b)
    /\ UNCHANGED <<picked, tenantObj, tenantNs,
                   teamObj, procVars>>
    /\ brokers[b].exists
    /\ brokers[b].key # BrokerKey(b)
    /\ brokers' = [brokers EXCEPT ![b].key = BrokerKey(b)]
    /\ UNCHANGED <<db, storeVars, registryVars, now, inflight, historyVars,
                   obsVars>>

InitCb ==
    /\ db = [d \in DBs |-> IF d = "db1" THEN ProvisionedDb ELSE NewDb(NoOwner)]
    /\ \E k \in {"", BrokerKey("b1")} :
          brokers = [b \in Brokers |->
                       IF b = "b1" THEN [ReadyBroker(b) EXCEPT !.key = k]
                       ELSE ReadyBroker(b)]
    /\ tenants = {"acme"}
    /\ InitStore
    /\ brokerCache = [b \in Brokers |-> NoBroker]
    /\ lastRefresh = ZeroTime
    /\ now = StartTime
    /\ inflight = [d \in DBs |-> NoFlight]
    /\ deployments = {[db |-> "db1", id |-> RandIDs[1], broker |-> "b1"]}
    /\ deprovAcks = {}
    /\ everProv = {"db1"}
    /\ removal = [d \in DBs |-> NoRemoval]
    /\ resp = NoResp
    /\ resolved = NotAsked
    /\ InitCtl

NextCb ==
    \/ \E req \in Requests : Exchange(req)
    \/ Tick
    \/ \E b \in Brokers : BrokerStart(b)

SpecCb == InitCb /\ [][NextCb]_vars

(***************************************************************************)
(* The resolver specification: ResolveTenant asked about the records of a  *)
(* frozen store.  The store holds db1, a chain of applications above it,   *)
(* teams in two namespaces, tenants and a namespace label.                 *)
(***************************************************************************)
AppSeq == <<"a1", "a2", "a3", "a4", "a5", "a6", "a7">>

Owner(kind, name, ns) == [kind |-> kind, name |-> name, namespace |-> ns]

\* the owners the topmost record of the chain may name
TopOwners ==
    {NoOwner, Owner("Team", "pt", ""), Owner("Team", "pt", "ops"),
     Owner("Tenant", "acme", ""), Owner("Application", "a1", "")}

\* db1 is owned by a1, a1 by a2, ... up to the n-th application, whose owner
\* is top; with no application db1 itself names top
ChainApps(n, top) ==
    [k \in AppKeys |->
        LET i == CHOOSE j \in 1..Len(AppSeq) : AppSeq[j] = k[2]
        IN IF i > n THEN [exists |-> FALSE, owner |-> NoOwner]
           ELSE IF i = n THEN [exists |-> TRUE, owner |-> top]
           ELSE [exists |-> TRUE, owner |-> Owner("Application", AppSeq[i + 1], "")]]

Team(ref) ==
    IF ref = "absent" THEN [exists |-> FALSE, tenantRef |-> ""]
    ELSE [exists |-> TRUE, tenantRef |-> ref]

InitResolve ==
    /\ \E n \in 0..Len(AppSeq), top \in TopOwners :
          /\ apps = ChainApps(n, top)
          /\ db = [d \in DBs |->
                     IF d = "db1"
                     THEN NewDb(IF n = 0 THEN top
                                ELSE Owner("Application", AppSeq[1], ""))
                     ELSE NewDb(NoOwner)]
    /\ \E devRef \in {"absent", "", "acme"}, opsRef \in {"absent", "acme", "beta"} :
          teams = [k \in TeamKeys |-> IF k[1] = "dev" THEN Team(devRef)
                                      ELSE Team(opsRef)]
    /\ tenants \in SUBSET TenantNames
    /\ \E label \in {"", "acme"} :
          nsObj = [n \in Namespaces |->
                     [exists |-> TRUE,
                      tenantLabel |-> IF n = "dev" THEN label ELSE ""]]
    /\ brokers = [b \in Brokers |-> ReadyBroker(b)]
    /\ brokerCache = [b \in Brokers |-> NoBroker]
    /\ lastRefresh = ZeroTime
    /\ now = StartTime
    /\ InitHistory

\* the records of the store ResolveTenant can be asked about
Records ==
    {DbObj("db1")}
    \cup {Obj("Application", k[1], k[2]) : k \in {a \in AppKeys : apps[a].exists}}
    \cup {Obj("Team", k[1], k[2]) : k \in {t \in TeamKeys : teams[t].exists}}

\* a caller resolves the tenant of a record; the store is only read
Resolve(obj) ==
    /\ UNCHANGED passes
    /\ UNCHANGED ctlVars
    /\ UNCHANGED procVars
    /\ resolved' = [asked |-> TRUE, obj |-> obj, result |-> ResolveTenant(obj)]
    /\ UNCHANGED <<db, brokers, storeVars, registryVars, now, inflight,
                   historyVars, resp>>

NextResolve == \E obj \in Records : Resolve(obj)

SpecResolve == InitResolve /\ [][NextResolve]_vars

(***************************************************************************)
(* The attribution specification: the Database reconciler alone over a     *)
(* frozen store.  db1 is created with or without the finalizer, with or    *)
(* without a tenant label of the user's, with no owner, a Team or a Tenant *)
(* as owner; tenants, the Team, the namespace and its label vary; the      *)
(* brokers are all healthy or all unhealthy.                               *)
(***************************************************************************)
Unhealthy(b) == [ReadyBroker(b) EXCEPT !.phase = "Unhealthy"]

InitQuiet ==
    /\ \E owner \in {NoOwner, Owner("Team", "pt", ""), Owner("Tenant", "acme", "")},
          finalizer \in BOOLEAN, label \in {"", "acme", "beta"} :
          db = [d \in DBs |->
                  IF d = "db1"
                  THEN [NewDb(owner) EXCEPT !.finalizer = finalizer,
                                            !.label = label]
                  ELSE AbsentDb]
    /\ \E up \in BOOLEAN :
          brokers = [b \in Brokers |-> IF up THEN ReadyBroker(b) ELSE Unhealthy(b)]
    /\ tenants \in {{}, {"acme"}, {"acme", "beta"}}
    /\ \E dev \in {NoNamespace, [exists |-> TRUE, tenantLabel |-> ""],
                   [exists |-> TRUE, tenantLabel |-> "acme"]} :
          nsObj = [n \in Namespaces |->
                     IF n = "dev" THEN dev ELSE [exists |-> TRUE, tenantLabel |-> ""]]
    /\ \E ref \in {"absent", "", "acme"} :
          teams = [k \in TeamKeys |-> IF k[1] = "dev" THEN Team(ref)
                                      ELSE Team("absent")]
    /\ apps = [k \in AppKeys |-> [exists |-> FALSE, owner |-> NoOwner]]
    /\ brokerCache = [b \in Brokers |-> NoBroker]
    /\ lastRefresh = ZeroTime
    /\ now = StartTime
    /\ InitHistory

NextQuiet ==
    \E d \in DBs :
        \/ ReconcileAddFinalizer(d)
        \/ ReconcileSuspend(d)
        \/ ReconcileLabel(d)
        \/ ReconcileIdle(d)
        \/ ReconcileSelectFails(d)
        \/ ReconcileProvisionFails(d)
        \/ ReconcileDispatch(d)
        \/ ReconcileRecord(d)

SpecQuiet == InitQuiet /\ [][NextQuiet]_vars

(***************************************************************************)
(* The selection specification: callers ask the registry for a broker      *)
(* while the clock runs and the health of b1 changes in the store.  The    *)
(* Broker records vary in phase, priority, capabilities, load and          *)
(* heartbeat.                                                              *)
(***************************************************************************)
Cap(rt, providers) == [resourceType |-> rt, providers |-> providers]

\* the criteria the callers ask with
CriteriaAsked ==
    {Criteria("Database", "", "", "postgresql"),
     Criteria("Database", "", "", ""),
     Criteria("Cache", "", "", ""),
     Criteria("Database", "aws", "", "postgresql")}

InitSelect ==
    /\ \E phase1 \in {"Ready", "Unhealthy"}, phase2 \in {"Ready", "Unhealthy"},
          caps1 \in {{Cap("Database", {"postgresql"})},
                     {Cap("Database", {"postgresql", "mysql"})},
                     {Cap("Cache", {"redis"}), Cap("Database", {"postgresql"})}},
          caps2 \in {{Cap("Database", {"mysql"})},
                     {Cap("Database", {"postgresql"})},
                     {Cap("Cache", {"postgresql"})}},
          load1 \in {<<0, 0>>, <<2, 2>>}, load2 \in {<<0, 0>>, <<2, 1>>},
          priority2 \in {50, 100, 150}, heartbeat2 \in {-1, StartTime} :
          brokers = [b \in Brokers |->
              IF b = "b1"
              THEN [ReadyBroker(b) EXCEPT !.phase = phase1, !.caps = caps1,
                                          !.maxConcurrent = load1[1],
                                          !.active = load1[2]]
              ELSE [ReadyBroker(b) EXCEPT !.phase = phase2, !.caps = caps2,
                                          !.maxConcurrent = load2[1],
                                          !.active = load2[2],
                                          !.priority = priority2,
                                          !.lastHeartbeat = heartbeat2]]
    /\ db = [d \in DBs |-> AbsentDb]
    /\ tenants = {}
    /\ InitStore
    /\ brokerCache = [b \in Brokers |-> NoBroker]
    /\ lastRefresh = ZeroTime
    /\ now = StartTime
    /\ InitHistory

\* a caller asks SelectBroker; the answer is kept with the cache it was
\* computed from
Select(criteria) ==
    /\ \/ \E b \in SelectBroker(criteria) :
             picked' = [asked |-> TRUE, criteria |-> criteria,
                        cache |-> CacheForSelect, at |-> now, broker |-> b]
       \/ /\ SelectBroker(criteria) = {}
          /\ picked' = [asked |-> TRUE, criteria |-> criteria,
                        cache |-> CacheForSelect, at |-> now, broker |-> ""]
    /\ RefreshForSelect
    /\ UNCHANGED <<db, brokers, storeVars, now, inflight, historyVars,
                   obsVars, passes, probe, tenantObj, tenantNs,
                   teamObj, procVars>>

NextSelect ==
    \/ \E criteria \in CriteriaAsked : Select(criteria)
    \/ Tick
    \/ \E b \in Probed, healthy \in BOOLEAN : BrokerReconcile(b, healthy)

SpecSelect == InitSelect /\ [][NextSelect]_vars

(***************************************************************************)
(* The broker specification: BrokerReconciler passes, split at the health  *)
(* probe, racing with users who edit, delete and recreate Broker records   *)
(* and with broker processes that publish their keys.                      *)
(***************************************************************************)
\* a Broker record as the user creates it: generation 1, empty status
NewBroker(b) ==
    [ReadyBroker(b) EXCEPT !.phase = "", !.lastHeartbeat = -1, !.key = "",
                           !.observedGeneration = 0]

\* Reconcile, lines 51-57: the record is read and the health probe starts
BrokerGet(b) ==
    /\ brokers[b].exists
    /\ ~probe[b].active
    /\ probe' = [probe EXCEPT ![b] =
          [active |-> TRUE, generation |-> brokers[b].generation,
           stale |-> FALSE]]
    /\ UNCHANGED <<db, brokers, storeVars, registryVars, now, inflight,
                   historyVars, obsVars, passes, picked, tenantObj, tenantNs,
                   teamObj, procVars>>

\* Status().Update fails when the record was written or removed since Get
NeverConflicts(b) == FALSE
Conflicts(b) == probe[b].stale \/ ~brokers[b].exists

\* Reconcile, lines 59-94: the status computed from the copy read earlier
\* is written, observedGeneration included; on a conflict nothing is
\* written and the error is returned
BrokerStatusUpdate(b, healthy) ==
    /\ probe[b].active
    /\ IF Conflicts(b) THEN UNCHANGED brokers
       ELSE brokers' = [brokers EXCEPT ![b] =
               IF healthy
               THEN [@ EXCEPT !.phase = "Ready", !.lastHeartbeat = now,
                              !.observedGeneration = probe[b].generation]
               ELSE [@ EXCEPT !.phase = "Unhealthy",
                              !.observedGeneration = probe[b].generation]]
    /\ probe' = [probe EXCEPT ![b].active = FALSE]
    /\ UNCHANGED <<db, storeVars, registryVars, now, inflight, historyVars,
                   obsVars, passes, picked, tenantObj, tenantNs,
                   teamObj, procVars>>

\* a user edits the spec of a Broker: the store bumps metadata.generation
EditBrokerSpec(b) ==
    /\ brokers[b].exists
    /\ brokers[b].generation <= MaxEdits
    /\ brokers' = [brokers EXCEPT ![b].generation = @ + 1,
                                  ![b].priority = 150 - @]
    /\ MarkProbeStale(b)
    /\ UNCHANGED <<db, storeVars, registryVars, now, inflight, historyVars,
                   obsVars, passes, picked, tenantObj, tenantNs,
                   teamObj, procVars>>

\* a user creates a Broker record under a name that is free
CreateBroker(b) ==
    /\ ~brokers[b].exists
    /\ brokers' = [brokers EXCEPT ![b] = NewBroker(b)]
    /\ MarkProbeStale(b)
    /\ UNCHANGED <<db, storeVars, registryVars, now, inflight, historyVars,
                   obsVars, passes, picked, tenantObj, tenantNs,
                   teamObj, procVars>>

InitBroker ==
    /\ \E fresh \in SUBSET Brokers :
          brokers = [b \in Brokers |->
                       IF b \in fresh THEN NewBroker(b) ELSE ReadyBroker(b)]
    /\ db = [d \in DBs |-> AbsentDb]
    /\ tenants = {}
    /\ InitStore
    /\ brokerCache = [b \in Brokers |-> NoBroker]
    /\ lastRefresh = ZeroTime
    /\ now = StartTime
    /\ InitHistory

NextBroker ==
    \/ \E b \in Brokers : BrokerGet(b)
    \/ \E b \in Brokers, healthy \in BOOLEAN : BrokerStatusUpdate(b, healthy)
    \/ \E b \in Probed : EditBrokerSpec(b)
    \/ \E b \in Probed : DeleteBroker(b)
    \/ \E b \in Probed : CreateBroker(b)
    \/ \E b \in Brokers : BrokerStart(b)
    \/ Tick

SpecBroker == InitBroker /\ [][NextBroker]_vars

(***************************************************************************)
(* The tenant specification: TenantReconciler                              *)
(* (internal/controller/tenant_controller.go) over Tenant records that     *)
(* users create and delete, and the namespaces tenant-<name>, which the    *)
(* reconciler creates and which users may create or delete as well.  The   *)
(* store holds Database db1, labelled with tenant acme.                    *)
(* tenantNs[t] is the Namespace named "tenant-" + t.                       *)
(***************************************************************************)
\* one call of TenantReconciler.Reconcile: the branch it took, what it
\* returned and the namespace tenant-<name> as the call left it
TenantPass(step, returned, namespace) ==
    [step |-> step, returned |-> returned, namespace |-> namespace]

\* the call of TenantReconciler.Reconcile for t is put on record
TenantLogged(t, step, returned, namespace) ==
    passes' = IF Len(passes[t]) < MaxPasses
              THEN [passes EXCEPT ![t] = Append(@, TenantPass(step, returned, namespace))]
              ELSE passes

\* the Namespace the reconciler creates for tenant t
TenantNamespace(t) == [exists |-> TRUE, tenantLabel |-> t]

\* Reconcile of a Tenant without the finalizer: add it, Update, requeue
TenantAddFinalizer(t) ==
    /\ t \in tenants
    /\ ~tenantObj[t].deleting
    /\ ~tenantObj[t].finalizer
    /\ tenantObj' = [tenantObj EXCEPT ![t].finalizer = TRUE]
    /\ TenantLogged(t, "AddFinalizer", "nil", tenantNs[t])
    /\ UNCHANGED <<db, brokers, storeVars, registryVars, now, inflight, historyVars,
                   obsVars, picked, probe, tenantNs,
                   teamObj, procVars>>

\* the namespace tenant-<name> after the Get/Create of Reconcile: created
\* with the tenant label when the Get finds none, left as it is otherwise
TenantEnsured(t) == IF tenantNs[t].exists THEN tenantNs[t] ELSE TenantNamespace(t)

\* Reconcile of a Tenant that has the finalizer: the status is initialised,
\* the namespace is looked up and created when missing; returns nil
TenantEnsure(t) ==
    /\ t \in tenants
    /\ ~tenantObj[t].deleting
    /\ tenantObj[t].finalizer
    /\ tenantObj' = [tenantObj EXCEPT ![t].phase = "Active"]
    /\ tenantNs' = [tenantNs EXCEPT ![t] = TenantEnsured(t)]
    /\ TenantLogged(t, "Ensure", "nil", TenantEnsured(t))
    /\ UNCHANGED <<db, brokers, storeVars, registryVars, now, inflight, historyVars,
                   obsVars, picked, probe, teamObj, procVars>>

\* the same Reconcile when a write fails: Status().Update (nothing is
\* written) or the Create of the namespace (the status was written); the
\* error is returned
TenantEnsureFails(t) ==
    /\ t \in tenants
    /\ ~tenantObj[t].deleting
    /\ tenantObj[t].finalizer
    /\ \E failed \in {"Status", "Create"} :
         \/ /\ failed = "Status"
            /\ tenantObj[t].phase = ""
            /\ UNCHANGED tenantObj
         \/ /\ failed = "Create"
            /\ ~tenantNs[t].exists
            /\ tenantObj' = [tenantObj EXCEPT ![t].phase = "Active"]
    /\ TenantLogged(t, "Ensure", "error", tenantNs[t])
    /\ UNCHANGED <<db, brokers, storeVars, registryVars, now, inflight, historyVars,
                   obsVars, picked, probe, tenantNs,
                   teamObj, procVars>>

\* Reconcile of a Tenant being deleted: handleDeletion removes the
\* finalizer and the record goes; the namespace is not touched
TenantHandleDeletion(t) ==
    /\ t \in tenants
    /\ tenantObj[t].deleting
    /\ tenantObj[t].finalizer
    /\ tenants' = tenants \ {t}
    /\ tenantObj' = [tenantObj EXCEPT ![t] = NewTenant]
    /\ TenantLogged(t, "Delete", "nil", tenantNs[t])
    /\ UNCHANGED <<db, brokers, nsObj, teams, apps, registryVars, now,
                   inflight, historyVars, obsVars, picked, probe, tenantNs,
                   teamObj, procVars>>

\* a user deletes a Tenant: with the finalizer the record is marked, without
\* it the record goes at once
UserDeleteTenant(t) ==
    /\ t \in tenants
    /\ ~tenantObj[t].deleting
    /\ IF tenantObj[t].finalizer
       THEN /\ tenantObj' = [tenantObj EXCEPT ![t].deleting = TRUE]
            /\ UNCHANGED tenants
       ELSE /\ tenants' = tenants \ {t}
            /\ tenantObj' = [tenantObj EXCEPT ![t] = NewTenant]
    /\ UNCHANGED <<db, brokers, nsObj, teams, apps, registryVars, now,
                   inflight, historyVars, obsVars, passes, picked, probe,
                   tenantNs,
                   teamObj, procVars>>

\* somebody else creates the Namespace tenant-<name>, with no tenant label
\* or with the label of some tenant
UserCreateNamespace(t, label) ==
    /\ ~tenantNs[t].exists
    /\ tenantNs' = [tenantNs EXCEPT ![t] = [exists |-> TRUE, tenantLabel |-> label]]
    /\ UNCHANGED <<db, brokers, storeVars, registryVars, now, inflight, historyVars,
                   obsVars, passes, picked, probe, tenantObj,
                   teamObj, procVars>>

\* somebody deletes the Namespace tenant-<name>
UserDeleteNamespace(t) ==
    /\ tenantNs[t].exists
    /\ tenantNs' = [tenantNs EXCEPT ![t] = NoNamespace]
    /\ UNCHANGED <<db, brokers, storeVars, registryVars, now, inflight, historyVars,
                   obsVars, passes, picked, probe, tenantObj,
                   teamObj, procVars>>

\* a Database that was reconciled under tenant t: finalizer and tenant label
LabelledDb(t) == [NewDb(NoOwner) EXCEPT !.finalizer = TRUE, !.label = t]

InitTenant ==
    /\ db = [d \in DBs |-> IF d = "db1" THEN LabelledDb("acme") ELSE AbsentDb]
    /\ brokers = [b \in Brokers |-> ReadyBroker(b)]
    /\ tenants \in SUBSET TenantNames
    /\ InitStore
    /\ brokerCache = [b \in Brokers |-> NoBroker]
    /\ lastRefresh = ZeroTime
    /\ now = StartTime
    /\ InitHistory

NextTenant ==
    \/ \E t \in TenantNames : CreateTenant(t)
    \/ \E t \in TenantNames : UserDeleteTenant(t)
    \/ \E t \in TenantNames : TenantAddFinalizer(t)
    \/ \E t \in TenantNames : TenantEnsure(t)
    \/ \E t \in TenantNames : TenantEnsureFails(t)
    \/ \E t \in TenantNames : TenantHandleDeletion(t)
    \/ \E t \in TenantNames, label \in {""} \cup TenantNames :
         UserCreateNamespace(t, label)
    \/ \E t \in TenantNames : UserDeleteNamespace(t)

SpecTenant == InitTenant /\ [][NextTenant]_vars

(***************************************************************************)
(* The team specification: TeamReconciler                                  *)
(* (internal/controller/team_controller.go) over the Teams dev/pt and      *)
(* ops/pt, both named pt, while users delete Teams and Databases and       *)
(* create Tenants.  The databases live in namespace dev and name their     *)
(* owner by kind, name and, optionally, namespace.                         *)
(***************************************************************************)
\* one call of TeamReconciler.Reconcile: the branch it took, what it
\* returned and the number of databases its error message states
TeamPass(step, returned, count) ==
    [step |-> step, returned |-> returned, count |-> count]

\* the call of TeamReconciler.Reconcile for k is put on record
TeamLogged(k, step, returned, count) ==
    passes' = IF Len(passes[TeamId(k)]) < MaxPasses
              THEN [passes EXCEPT ![TeamId(k)] = Append(@, TeamPass(step, returned, count))]
              ELSE passes

\* Reconcile got past the deletion check and the finalizer
TeamLive(k) ==
    /\ teams[k].exists
    /\ ~teamObj[k].deleting
    /\ teamObj[k].finalizer

\* the namespace label the Team's tenant is inferred from, "" when the
\* namespace cannot be read or carries none
TeamNamespaceLabel(k) ==
    IF nsObj[k[1]].exists THEN nsObj[k[1]].tenantLabel ELSE ""

\* Reconcile of a Team without the finalizer: add it, Update, requeue
TeamAddFinalizer(k) ==
    /\ teams[k].exists
    /\ ~teamObj[k].deleting
    /\ ~teamObj[k].finalizer
    /\ teamObj' = [teamObj EXCEPT ![k].finalizer = TRUE]
    /\ TeamLogged(k, "AddFinalizer", "nil", 0)
    /\ UNCHANGED <<db, brokers, storeVars, registryVars, now, inflight,
                   historyVars, obsVars, picked, probe, tenantObj, tenantNs, procVars>>

\* Reconcile of a Team whose tenantRef names no Tenant: the Team is
\* suspended and an error is returned
TeamSuspendMissingTenant(k) ==
    /\ TeamLive(k)
    /\ teams[k].tenantRef # ""
    /\ teams[k].tenantRef \notin tenants
    /\ teamObj' = [teamObj EXCEPT ![k].phase = "Suspended"]
    /\ TeamLogged(k, "Suspend", "error", 0)
    /\ UNCHANGED <<db, brokers, storeVars, registryVars, now, inflight,
                   historyVars, obsVars, picked, probe, tenantObj, tenantNs, procVars>>

\* Reconcile of a Team without tenantRef in a labelled namespace: the
\* tenantRef is set from the label, Update, requeue
TeamInferTenant(k) ==
    /\ TeamLive(k)
    /\ teams[k].tenantRef = ""
    /\ TeamNamespaceLabel(k) # ""
    /\ teams' = [teams EXCEPT ![k].tenantRef = TeamNamespaceLabel(k)]
    /\ TeamLogged(k, "Infer", "nil", 0)
    /\ UNCHANGED <<db, brokers, tenants, nsObj, apps, registryVars, now,
                   inflight, historyVars, obsVars, ctlVars, procVars>>

\* Reconcile of a Team without tenantRef and without namespace label: the
\* Team is suspended and nil is returned
TeamSuspendNoTenant(k) ==
    /\ TeamLive(k)
    /\ teams[k].tenantRef = ""
    /\ TeamNamespaceLabel(k) = ""
    /\ teamObj' = [teamObj EXCEPT ![k].phase = "Suspended"]
    /\ TeamLogged(k, "Suspend", "nil", 0)
    /\ UNCHANGED <<db, brokers, storeVars, registryVars, now, inflight,
                   historyVars, obsVars, picked, probe, tenantObj, tenantNs, procVars>>

\* Reconcile of a Team whose Tenant exists: the status is initialised
TeamActivate(k) ==
    /\ TeamLive(k)
    /\ teams[k].tenantRef \in tenants
    /\ teamObj' = [teamObj EXCEPT ![k].phase = IF @ = "" THEN "Active" ELSE @]
    /\ TeamLogged(k, "Active", "nil", 0)
    /\ UNCHANGED <<db, brokers, storeVars, registryVars, now, inflight,
                   historyVars, obsVars, picked, probe, tenantObj, tenantNs, procVars>>

\* checkOwnedResources: the databases of all namespaces whose owner is of
\* kind Team and has the Team's name
ownedDatabases(k) ==
    Cardinality({d \in DBs : /\ db[d].exists
                             /\ db[d].owner.kind = "Team"
                             /\ db[d].owner.name = k[2]})

\* handleDeletion entered with the finalizer attached
TeamDeleting(k) ==
    /\ teams[k].exists
    /\ teamObj[k].deleting
    /\ teamObj[k].finalizer

\* handleDeletion while checkOwnedResources finds databases: the phase is
\* written Deleting, the finalizer stays, the error states the count
TeamDeleteBlocked(k) ==
    /\ TeamDeleting(k)
    /\ ownedDatabases(k) > 0
    /\ teamObj' = [teamObj EXCEPT ![k].phase = "Deleting"]
    /\ TeamLogged(k, "Delete", "error", ownedDatabases(k))
    /\ UNCHANGED <<db, brokers, storeVars, registryVars, now, inflight,
                   historyVars, obsVars, picked, probe, tenantObj, tenantNs, procVars>>

\* handleDeletion while checkOwnedResources finds none: the finalizer is
\* removed and the store drops the Team
TeamDeleteDone(k) ==
    /\ TeamDeleting(k)
    /\ ownedDatabases(k) = 0
    /\ teams' = [teams EXCEPT ![k] = Team("absent")]
    /\ teamObj' = [teamObj EXCEPT ![k] = NewTeam]
    /\ TeamLogged(k, "Delete", "nil", 0)
    /\ UNCHANGED <<db, brokers, tenants, nsObj, apps, registryVars, now,
                   inflight, historyVars, obsVars, picked, probe, tenantObj,
                   tenantNs, procVars>>

\* a user deletes a Team: with the finalizer the record is marked, without
\* it the record goes at once
UserDeleteTeam(k) ==
    /\ teams[k].exists
    /\ ~teamObj[k].deleting
    /\ IF teamObj[k].finalizer
       THEN /\ teamObj' = [teamObj EXCEPT ![k].deleting = TRUE]
            /\ UNCHANGED teams
       ELSE /\ teams' = [teams EXCEPT ![k] = Team("absent")]
            /\ teamObj' = [teamObj EXCEPT ![k] = NewTeam]
    /\ UNCHANGED <<db, brokers, tenants, nsObj, apps, registryVars, now,
                   inflight, historyVars, obsVars, passes, picked, probe,
                   tenantObj, tenantNs, procVars>>

\* the owner a Database of namespace dev may name: none, Team pt of its own
\* namespace, or Team pt of namespace ops
TeamOwners == {NoOwner, Owner("Team", "pt", ""), Owner("Team", "pt", "ops")}

InitTeam ==
    /\ \E owner \in [DBs -> TeamOwners] :
          db = [d \in DBs |-> NewDb(owner[d])]
    /\ brokers = [b \in Brokers |-> ReadyBroker(b)]
    /\ tenants \in {{}, {"acme"}}
    /\ nsObj = [n \in Namespaces |->
                  [exists |-> TRUE, tenantLabel |-> IF n = "dev" THEN "acme" ELSE ""]]
    /\ \E ref \in [TeamKeys -> {"", "acme", "beta"}] :
          teams = [k \in TeamKeys |-> Team(ref[k])]
    /\ apps = [k \in AppKeys |-> [exists |-> FALSE, owner |-> NoOwner]]
    /\ brokerCache = [b \in Brokers |-> NoBroker]
    /\ lastRefresh = ZeroTime
    /\ now = StartTime
    /\ InitHistory

NextTeam ==
    \/ \E k \in TeamKeys : TeamAddFinalizer(k)
    \/ \E k \in TeamKeys : TeamSuspendMissingTenant(k)
    \/ \E k \in TeamKeys : TeamInferTenant(k)
    \/ \E k \in TeamKeys : TeamSuspendNoTenant(k)
    \/ \E k \in TeamKeys : TeamActivate(k)
    \/ \E k \in TeamKeys : TeamDeleteBlocked(k)
    \/ \E k \in TeamKeys : TeamDeleteDone(k)
    \/ \E k \in TeamKeys : UserDeleteTeam(k)
    \/ \E d \in DBs : UserDelete(d)
    \/ CreateTenant("acme")

SpecTeam == InitTeam /\ [][NextTeam]_vars

(***************************************************************************)
(* The cleanup specification: handleDeletion and cleanupDatabase over      *)
(* records that carry a deletion timestamp.  db1 was provisioned by b1 or  *)
(* b2, db2 never was; brokers are Ready, Unhealthy or retired, and are     *)
(* retired or probed while the cleanup is retried.                         *)
(***************************************************************************)
\* db1 as the user's delete leaves it: provisioned by broker b, finalizer
\* attached, deletion timestamp set
DeletingDb(b, phase) ==
    [ProvisionedDb EXCEPT !.deleting = TRUE, !.phase = phase,
                          !.brokerRef = [name |-> b,
                                         namespace |-> BrokerNamespace(b)]]

InitCleanup ==
    /\ \E b \in Brokers, phase \in {"Provisioning", "Ready"} :
          /\ db = [d \in DBs |->
                     IF d = "db1" THEN DeletingDb(b, phase)
                     ELSE [NewDb(NoOwner) EXCEPT !.finalizer = TRUE,
                                                 !.deleting = TRUE]]
          /\ deployments = {[db |-> "db1", id |-> RandIDs[1], broker |-> b]}
    /\ \E state \in [Brokers -> {"Ready", "Unhealthy", "Retired"}] :
          brokers = [b \in Brokers |->
                       CASE state[b] = "Ready" -> ReadyBroker(b)
                         [] state[b] = "Unhealthy" -> Unhealthy(b)
                         [] OTHER -> NoBroker]
    /\ tenants = {"acme"}
    /\ InitStore
    /\ brokerCache = [b \in Brokers |-> NoBroker]
    /\ lastRefresh = ZeroTime
    /\ now = StartTime
    /\ inflight = [d \in DBs |-> NoFlight]
    /\ deprovAcks = {}
    /\ everProv = {"db1"}
    /\ removal = [d \in DBs |-> NoRemoval]
    /\ resp = NoResp
    /\ resolved = NotAsked
    /\ InitCtl

NextCleanup ==
    \/ \E d \in DBs : ReconcileDeleteUnprovisioned(d)
    \/ \E d \in DBs : ReconcileDeleteSkip(d)
    \/ \E d \in DBs : ReconcileDeleteAcked(d)
    \/ \E d \in DBs : ReconcileDeleteFails(d)
    \/ \E b \in Brokers : DeleteBroker(b)
    \/ \E b \in Probed, healthy \in BOOLEAN : BrokerReconcile(b, healthy)
    \/ Tick

SpecCleanup == InitCleanup /\ [][NextCleanup]_vars

(***************************************************************************)
(* Properties of the lifecycle (checked under Spec).                       *)
(***************************************************************************)
\* C1: in every reachable state a Database whose status.phase is
\* Provisioning, Ready or Deleting has a non-empty status.deploymentId and a
\* non-empty status.brokerRef.
C1_PhaseHasCorrelation ==
    \A d \in DBs :
        (db[d].exists /\ db[d].phase \in {"Provisioning", "Ready", "Deleting"})
            => (db[d].deploymentId # "" /\ db[d].brokerRef.name # "")

\* the deprovision of d was answered 2xx by the broker that accepted d's
\* provision request under the same deployment ID
OwnerAcked(d) ==
    \E a \in deprovAcks :
        /\ a.db = d
        /\ \E dep \in deployments :
              dep.db = d /\ dep.id = a.id /\ dep.broker = a.broker

\* C2: barrier safety, for the records some broker accepted: a Database
\* that ever entered phase Provisioning and whose provision request a broker
\* accepted is gone from the store only if the owning broker acknowledged
\* its deprovision with a 2xx or, when it left, no Broker record declared
\* the capability it needs.
C2_BarrierSafety ==
    \A d \in DBs :
        (/\ d \in everProv
         /\ \E dep \in deployments : dep.db = d
         /\ removal[d].gone)
            => (OwnerAcked(d) \/ ~removal[d].matching)

\* C3: correlation uniqueness: no two Databases of the namespace carry the
\* same non-empty status.deploymentId, whatever dispatches, retries and
\* broker answers came before.
C3_CorrelationUnique ==
    \A d1, d2 \in DBs :
        (d1 # d2 /\ db[d1].exists /\ db[d2].exists /\ db[d1].deploymentId # "")
            => db[d1].deploymentId # db[d2].deploymentId

\* C6: deploymentId and brokerRef are write-once: no step (reconcile, retry
\* or callback) changes either of them on a record once it is non-empty.
C6_WriteOnce ==
    [][\A d \in DBs :
          (db[d].exists /\ db'[d].exists) =>
              /\ db[d].deploymentId # "" => db'[d].deploymentId = db[d].deploymentId
              /\ db[d].brokerRef.name # "" => db'[d].brokerRef = db[d].brokerRef]_vars

\* C6 witness: a record whose deployment was recorded went on to be reported
\* Ready by a callback, and reconciled or not, it still carries both
C6_Witness ==
    \E d \in DBs :
        /\ db[d].exists
        /\ db[d].phase = "Ready"
        /\ \E dep \in deployments :
              /\ dep.db = d
              /\ db[d].deploymentId = dep.id
              /\ db[d].brokerRef.name = dep.broker

(***************************************************************************)
(* Properties of the callback receiver (checked under SpecCb).             *)
(***************************************************************************)
\* the receiver answered a POST whose body it could decode
Decoded == resp.code # 0 /\ resp.req.method = "POST" /\ Decodes(resp.req.body)

HeaderMissing ==
    \/ resp.req.brokerName = ""
    \/ resp.req.timestamp.form = ""
    \/ resp.req.signature.form = ""

\* now - timestamp at the time the request was handled
Age == resp.at - resp.req.timestamp.t

\* the key stored in the status of the Broker record the request names,
\* in whatever namespace that record lives; "" when there is none
StoredKey ==
    IF resp.req.brokerName \in Brokers /\ resp.brokers[resp.req.brokerName].exists
    THEN resp.brokers[resp.req.brokerName].key
    ELSE ""

\* the signature was made with key k over timestamp "." canonical body
SignedBy(k) ==
    /\ resp.req.signature.form = "sig"
    /\ resp.req.signature.key = k
    /\ resp.req.signature.msg =
          <<resp.req.timestamp, Marshal(Decode(resp.req.body))>>

\* the request got past verification: it was routed by resource type
Verified == Decoded /\ resp.code \in {200, 500} \cup
                (IF Decode(resp.req.body).resourceType # "database" THEN {400} ELSE {})

C5_ReplayAnswered200 ==
    (resp.code # 0 /\ resp.replay)
        => (resp.code = 200 /\ resp.after = resp.before)

\* C5 amended: the same signed callback submitted again, with no write in
\* between and while its timestamp is still inside the acceptance window, is
\* answered 200 like the first and leaves the records as the first left
\* them.
C5_ReplayInWindow ==
    (resp.code # 0 /\ resp.replay /\ Age <= 5 * 60 /\ Age >= -(1 * 60))
        => (resp.code = 200 /\ resp.after = resp.before)

\* C5 witness: a report of Ready came twice, was answered 200 twice, and the
\* record is as the first left it
C5_Witness ==
    /\ resp.code = 200
    /\ resp.replay
    /\ Decode(resp.req.body) = ReadyPayload
    /\ resp.after = resp.before
    /\ resp.after["db1"].phase = "Ready"

\* C7: a callback with all required headers, a timestamp inside the window
\* and a signature valid under the key stored in the status of the Broker
\* record its Broker-Name header names is never answered 401, whatever
\* namespace that record lives in.
C7_ValidCallbackPasses ==
    (/\ Decoded
     /\ ~HeaderMissing
     /\ ParsesRFC3339(resp.req.timestamp)
     /\ Age <= 5 * 60 /\ Age >= -(1 * 60)
     /\ StoredKey # ""
     /\ SignedBy(StoredKey))
        => resp.code # 401

\* C8: with a key stored on the Broker record only a signature under that
\* key passes verification, whatever the Public-Key header says; the header
\* key is what verifies only when no key is stored; and handling a callback
\* never changes a stored key.
C8_StoredKeyOnly ==
    /\ [](Verified => IF StoredKey # "" THEN SignedBy(StoredKey)
                      ELSE SignedBy(resp.req.publicKey))
    /\ [][resp' # resp =>
             \A b \in Brokers : brokers[b].key # "" => brokers'[b] = brokers[b]]_vars

\* C8 witness: b1 has K1 stored, and a callback signed with K1 whose
\* Public-Key header carries another key was accepted
C8_Witness ==
    /\ Verified
    /\ StoredKey = "K1"
    /\ resp.req.publicKey = "KX"
    /\ resp.code = 200

\* the headers are there and the timestamp parses, so the window is checked
WindowChecked == Decoded /\ ~HeaderMissing /\ ParsesRFC3339(resp.req.timestamp)

\* C9 as stated: the receiver rejects a callback unless
\* -5 min <= now - timestamp <= +1 min.
C9_WindowAsStated ==
    (WindowChecked /\ ~(Age >= -(5 * 60) /\ Age <= 1 * 60)) => resp.code = 401

\* C9 amended: the receiver rejects a callback unless
\* -1 min <= now - timestamp <= +5 min, and inside that window a callback of
\* broker b1 as its client sends it is not rejected.
C9_Window ==
    /\ (WindowChecked /\ ~(Age >= -(1 * 60) /\ Age <= 5 * 60)) => resp.code = 401
    /\ (/\ WindowChecked
        /\ Age >= -(1 * 60) /\ Age <= 5 * 60
        /\ resp.req \in HonestRequests
        /\ resp.req.brokerName = "b1") => resp.code # 401

\* C9 witness: a callback of b1 stamped more than five minutes ago was
\* answered 401
C9_Witness ==
    /\ WindowChecked
    /\ resp.req \in HonestRequests
    /\ resp.req.brokerName = "b1"
    /\ Age > 5 * 60
    /\ resp.code = 401

(***************************************************************************)
(* Properties of the resolver (checked under SpecResolve).                 *)
(***************************************************************************)
NoObj == Obj("", "", "")

\* the Team the owner chain of obj ends in within hops: every owner is
\* looked up in its own namespace when the reference names one, in the
\* child's otherwise
RECURSIVE ChainTeam(_, _)
ChainTeam(obj, hops) ==
    IF obj.kind = "Team" THEN obj
    ELSE IF hops = 0 THEN NoObj
    ELSE LET owner == OwnerOf(obj)
             ns == IF owner.namespace # "" THEN owner.namespace ELSE obj.namespace
         IN IF owner.kind = "Team" /\ TeamExists(ns, owner.name)
            THEN Obj("Team", ns, owner.name)
            ELSE IF owner.kind = "Application" /\ AppExists(ns, owner.name)
            THEN ChainTeam(Obj("Application", ns, owner.name), hops - 1)
            ELSE NoObj

\* C10: when the owner chain of record r reaches, within the depth budget,
\* a Team whose spec.tenantRef names an existing Tenant T, ResolveTenant(r)
\* returns T.
C10_OwnerChainResolves ==
    resolved.asked =>
        LET team == ChainTeam(resolved.obj, maxDepth)
        IN (/\ team.kind = "Team"
            /\ teams[<<team.namespace, team.name>>].tenantRef \in tenants)
               => resolved.result =
                     Resolved(teams[<<team.namespace, team.name>>].tenantRef)

\* the tenant a direct reference or the owner chain of obj leads to within
\* hops, "" when they lead to none: the tenantRef of a Team, an owner of kind
\* Tenant, or what the owner (looked up in its own namespace when the
\* reference names one) leads to
RECURSIVE ChainTenant(_, _)
ChainTenant(obj, hops) ==
    LET owner == OwnerOf(obj)
        ns == IF owner.namespace # "" THEN owner.namespace ELSE obj.namespace
        known(t) == IF t \in tenants THEN t ELSE ""
    IN IF obj.kind = "Team"
       THEN known(teams[<<obj.namespace, obj.name>>].tenantRef)
       ELSE IF owner.kind = "Tenant" THEN known(owner.name)
       ELSE IF hops = 0 THEN ""
       ELSE IF owner.kind = "Team" /\ TeamExists(ns, owner.name)
       THEN ChainTenant(Obj("Team", ns, owner.name), hops - 1)
       ELSE IF owner.kind = "Application" /\ AppExists(ns, owner.name)
       THEN ChainTenant(Obj("Application", ns, owner.name), hops - 1)
       ELSE ""

\* the record the owner chain of obj ends in within hops: one that names no
\* owner; NoObj when an owner is missing, is a Tenant, or the budget runs out
RECURSIVE ChainEnd(_, _)
ChainEnd(obj, hops) ==
    LET owner == OwnerOf(obj)
        ns == IF owner.namespace # "" THEN owner.namespace ELSE obj.namespace
    IN IF obj.kind = "Team" \/ owner.kind = "" THEN obj
       ELSE IF hops = 0 THEN NoObj
       ELSE IF owner.kind = "Team" /\ TeamExists(ns, owner.name)
       THEN Obj("Team", ns, owner.name)
       ELSE IF owner.kind = "Application" /\ AppExists(ns, owner.name)
       THEN ChainEnd(Obj("Application", ns, owner.name), hops - 1)
       ELSE NoObj

\* the tenant label of the namespace of obj
LabelOf(obj) == nsObj[obj.namespace].tenantLabel

C12_LabelAfterTwoReconciles ==
    \A d \in DBs :
        (/\ db[d].exists
         /\ db[d].owner = NoOwner
         /\ Len(passes[d]) >= 2
         /\ passes[d][1].step = "AddFinalizer"
         /\ nsObj[DbNamespace].exists
         /\ nsObj[DbNamespace].tenantLabel \in tenants)
            => db[d].label = nsObj[DbNamespace].tenantLabel

\* C12 witness: db1, created bare, went through the finalizer pass and the
\* label pass and carries the label acme of its namespace
C12_Witness ==
    /\ db["db1"].owner = NoOwner
    /\ Len(passes["db1"]) = 2
    /\ passes["db1"][1].step = "AddFinalizer"
    /\ passes["db1"][2].step = "Label"
    /\ nsObj[DbNamespace].tenantLabel = "acme"
    /\ db["db1"].label = "acme"

PickCandidates == Candidates(picked.cache, picked.criteria)

\* b and c are equal in every scoring input other than priority
SameLoadAndHeartbeat(b, c) ==
    /\ picked.cache[b].maxConcurrent = picked.cache[c].maxConcurrent
    /\ picked.cache[b].active = picked.cache[c].active
    /\ picked.cache[b].lastHeartbeat = picked.cache[c].lastHeartbeat

\* C14: among the Ready candidates that pass the filter and are equal in
\* every scoring input other than priority, the one with the highest
\* priority is selected: some candidate is selected whenever there is one,
\* and no candidate equal to it in load and heartbeat has a higher priority.
C14_HighestPriorityWins ==
    picked.asked =>
        /\ picked.broker = "" <=> PickCandidates = {}
        /\ picked.broker # "" =>
              /\ picked.broker \in PickCandidates
              /\ \A c \in PickCandidates :
                    SameLoadAndHeartbeat(picked.broker, c) =>
                        picked.cache[c].priority <= picked.cache[picked.broker].priority

\* C14 witness: b1 and b2 were both candidates, equal in load and heartbeat,
\* and b2 of priority 150 was selected over b1 of priority 100
C14_Witness ==
    /\ picked.asked
    /\ PickCandidates = {"b1", "b2"}
    /\ SameLoadAndHeartbeat("b1", "b2")
    /\ picked.cache["b2"].priority > picked.cache["b1"].priority
    /\ picked.broker = "b2"

\* C15: the Broker record SelectBroker returns has status.phase Ready.
C15_SelectedIsReady ==
    (picked.asked /\ picked.broker # "")
        => picked.cache[picked.broker].phase = "Ready"

\* C15 witness: b2, of the higher priority and with the capability asked
\* for, was not Ready, and b1 was selected
C15_Witness ==
    /\ picked.asked
    /\ picked.broker = "b1"
    /\ picked.cache["b2"].phase = "Unhealthy"
    /\ picked.cache["b2"].priority > picked.cache["b1"].priority
    /\ matchesCriteriaAnyPhase(picked.cache["b2"], picked.criteria)

\* C16: a broker is selected for criteria of resource kind K and provider P
\* only if one of its capabilities has kind K and lists P among its
\* providers; and with b1 Ready for Database/[postgresql] and below its
\* capacity, b2 Ready for Database/[mysql], the criteria
\* {Database, postgresql} select b1.
C16_SelectionFilter ==
    picked.asked =>
        /\ (picked.broker # "" /\ picked.criteria.resourceType # "") =>
              \E cap \in picked.cache[picked.broker].caps :
                  /\ cap.resourceType = picked.criteria.resourceType
                  /\ picked.criteria.provider # "" =>
                        picked.criteria.provider \in cap.providers
        /\ (/\ picked.criteria = Criteria("Database", "", "", "postgresql")
            /\ picked.cache["b1"].phase = "Ready"
            /\ picked.cache["b1"].caps = {Cap("Database", {"postgresql"})}
            /\ ~(picked.cache["b1"].maxConcurrent > 0 /\
                    picked.cache["b1"].active >= picked.cache["b1"].maxConcurrent)
            /\ picked.cache["b2"].phase = "Ready"
            /\ picked.cache["b2"].caps = {Cap("Database", {"mysql"})})
              => picked.broker = "b1"

\* C16 witness: the scenario itself, with b2 of the higher priority
C16_Witness ==
    /\ picked.asked
    /\ picked.criteria = Criteria("Database", "", "", "postgresql")
    /\ picked.cache["b1"].phase = "Ready"
    /\ picked.cache["b1"].caps = {Cap("Database", {"postgresql"})}
    /\ picked.cache["b2"].phase = "Ready"
    /\ picked.cache["b2"].caps = {Cap("Database", {"mysql"})}
    /\ picked.cache["b2"].priority > picked.cache["b1"].priority
    /\ picked.broker = "b1"

\* the tenant label of d is the name of the tenant the resolver returns
LabelAgrees(d) ==
    /\ ResolveTenant(DbObj(d)).ok
    /\ db[d].label = ResolveTenant(DbObj(d)).tenant

\* a step in which a provision is attempted for d: the first attempt, or a
\* request a broker accepts
ProvisionAttempted(d) ==
    \/ d \in everProv' /\ d \notin everProv
    \/ inflight'[d].active /\ ~inflight[d].active

C18_ObservedAtMostGeneration ==
    \A b \in Brokers :
        brokers[b].exists =>
            brokers[b].observedGeneration <= brokers[b].generation

\* C18 witness: a pass that read b1 at an earlier generation ended in a
\* conflict after the spec was edited, and the status still shows the
\* generation observed before
C18_Witness ==
    /\ brokers["b1"].exists
    /\ ~probe["b1"].active
    /\ probe["b1"].stale
    /\ probe["b1"].generation < brokers["b1"].generation
    /\ brokers["b1"].observedGeneration < brokers["b1"].generation
    /\ brokers["b1"].observedGeneration > 0


\* C19: whenever a call of TenantReconciler.Reconcile got past the
\* installation of the finalizer and returned nil, the namespace
\* tenant-<name> exists as the call left it and carries the label
\* tenant=<name>.  (tenantNs holds one Namespace per name, so two namespaces
\* tenant-<name> cannot exist.)
C19_TenantNamespaceEnsured ==
    \A t \in TenantNames : \A i \in 1..Len(passes[t]) :
        (passes[t][i].step = "Ensure" /\ passes[t][i].returned = "nil")
            => /\ passes[t][i].namespace.exists
               /\ passes[t][i].namespace.tenantLabel = t


\* a provision request goes out for d in this step: a deployment of d
\* appears at a broker, a request of d is put in flight, d is attempted for
\* the first time, or the call put on record is a provisioning call that
\* reached a broker
ProvisionSent(d) ==
    \/ \E dep \in deployments' \ deployments : dep.db = d
    \/ inflight'[d].active /\ ~inflight[d].active
    \/ d \in everProv' /\ d \notin everProv
    \/ /\ Len(passes'[d]) > Len(passes[d])
       /\ passes'[d][Len(passes'[d])].brokerCall

\* the finalizer of d is committed in this step
BarrierAdded(d) == db[d].exists /\ ~db[d].finalizer /\ db'[d].finalizer

\* C20: a provision request for a record is only sent in a step that starts
\* with the finalizer already on the record, and the step that adds the
\* finalizer writes nothing else to any record, reaches no broker and is
\* put on record as a call without a broker call.
C20_BarrierBeforeSideEffects ==
    [][\A d \in DBs :
         /\ ProvisionSent(d) => db[d].finalizer
         /\ BarrierAdded(d) =>
               /\ db' = [db EXCEPT ![d].finalizer = TRUE]
               /\ UNCHANGED <<brokers, storeVars, registryVars, inflight,
                              historyVars>>
               /\ ~ProvisionSent(d)]_vars

\* the reconciler added the finalizer to db1 in its first call and sent the
\* provision request in its second
C20_Witness ==
    /\ Len(passes["db1"]) = 2
    /\ passes["db1"][1].step = "AddFinalizer"
    /\ passes["db1"][2].step = "Provision"
    /\ passes["db1"][2].brokerCall
    /\ db["db1"].finalizer
    /\ "db1" \in everProv


\* C21: in every state of the store a Database has a deployment identifier
\* exactly when it has a broker reference, and a step that changes one of
\* the two on a record that stays in the store changes both.
C21_IdIffBrokerRef ==
    /\ [](\A d \in DBs :
            db[d].exists => (db[d].deploymentId # "" <=> db[d].brokerRef.name # ""))
    /\ [][\A d \in DBs :
            (db[d].exists /\ db'[d].exists)
               => (db'[d].deploymentId # db[d].deploymentId
                     <=> db'[d].brokerRef # db[d].brokerRef)]_vars

\* db1 carries the identifier its broker handed out and the reference to
\* that broker
C21_Witness ==
    \E dep \in deployments :
        /\ dep.db = "db1"
        /\ db["db1"].exists
        /\ db["db1"].deploymentId = dep.id
        /\ db["db1"].brokerRef.name = dep.broker


\* a request reaches a broker on behalf of d in this step: a provision
\* request, or a deprovision request that is acknowledged
BrokerCalled(d) ==
    \/ ProvisionSent(d)
    \/ \E ack \in deprovAcks' \ deprovAcks : ack.db = d

\* C22: a step that starts with a Database that is not being deleted and
\* has a deployment identifier reaches no broker on its behalf, and the
\* identifier recorded on the record is never replaced by another one.
C22_NoCallOnceRecorded ==
    [][\A d \in DBs :
         (db[d].exists /\ ~db[d].deleting /\ db[d].deploymentId # "")
            => /\ ~BrokerCalled(d)
               /\ db'[d].exists => db'[d].deploymentId = db[d].deploymentId]_vars

\* the reconciler ran for db1 after its deployment was recorded and found
\* nothing to do
C22_Witness ==
    /\ Len(passes["db1"]) = 2
    /\ passes["db1"][1] = Pass("Provision", "nil", TRUE)
    /\ passes["db1"][2] = Pass("Idle", "nil", FALSE)
    /\ ~db["db1"].deleting
    /\ db["db1"].deploymentId # ""


\* C23: a step that starts with a Database in phase Failed sends no
\* provision request for it.  (Under SpecQuiet nobody but the reconciler
\* acts, so every request is one the reconciler sends on its own.)
C23_FailedIsStuck ==
    [][\A d \in DBs :
         (db[d].exists /\ db[d].phase = "Failed") => ~ProvisionSent(d)]_vars


\* the call of Reconcile for d put on record in this step found no broker
\* for the criteria: a provisioning call that returned an error without
\* reaching a broker
SelectionFailed(d) ==
    /\ Len(passes'[d]) > Len(passes[d])
    /\ passes'[d][Len(passes'[d])] = Pass("Provision", "error", FALSE)

\* C24: a call of Reconcile in which the selection finds no broker returns
\* an error and leaves status.phase as it was, and so neither Provisioning
\* nor Failed unless it was that before.
C24_SelectionFailureKeepsPhase ==
    [][\A d \in DBs :
         SelectionFailed(d) => db'[d].phase = db[d].phase]_vars


\* the call of Reconcile for d put on record in this step had its provision
\* request fail: the broker did not answer, refused the connection or
\* answered outside 2xx (Client.Provision returns an error for each)
DispatchFailed(d) ==
    /\ Len(passes'[d]) > Len(passes[d])
    /\ passes'[d][Len(passes'[d])] = Pass("Provision", "error", TRUE)

\* C25: a call of Reconcile whose provision request fails in transport
\* does not leave the record in phase Failed.
C25_TransportFailureNotFailed ==
    [][\A d \in DBs :
         DispatchFailed(d) => db'[d].phase # "Failed"]_vars


\* C26: every call of TeamReconciler.Reconcile that suspended the Team
\* because its tenant could not be determined returned nil.
C26_SuspendReturnsNil ==
    \A k \in TeamKeys : \A i \in 1..Len(passes[TeamId(k)]) :
        passes[TeamId(k)][i].step = "Suspend"
            => passes[TeamId(k)][i].returned = "nil"


\* the deprovision requests for d that are acknowledged in this step
NewAcks(d) == {ack \in deprovAcks' \ deprovAcks : ack.db = d}

\* handleDeletion completes for d in this step: the record had a deployment
\* identifier and a deletion timestamp, and leaves the store
CleanedUp(d) ==
    /\ db[d].exists
    /\ db[d].deleting
    /\ db[d].deploymentId # ""
    /\ ~db'[d].exists

\* the Broker record that status.brokerRef of d names is in the store
RecordedBrokerExists(d) ==
    /\ db[d].brokerRef.name \in Brokers
    /\ brokers[db[d].brokerRef.name].exists

DeprovisionAcked(d) ==
    \E ack \in deprovAcks' : ack.db = d /\ ack.id = db[d].deploymentId

\* the call of Reconcile for d put on record in this step had its
\* deprovision request fail (transport error or a reply outside 2xx)
DeprovisionFailed(d) ==
    /\ Len(passes'[d]) > Len(passes[d])
    /\ passes'[d][Len(passes'[d])].step = "Delete"
    /\ passes'[d][Len(passes'[d])].brokerCall
    /\ passes'[d][Len(passes'[d])].returned # "nil"

\* the cleanup has no broker to call: the recorded one is gone and the
\* registry selects none
NoBrokerToCall(d) ==
    /\ ~RecordedBrokerExists(d)
    /\ SelectBroker(DbCriteria(d)) = {}

Descendants(k) ==
    {d \in DBs : /\ db[d].exists
                 /\ db[d].owner.kind = "Team"
                 /\ db[d].owner.name = k[2]
                 /\ (IF db[d].owner.namespace = "" THEN DbNamespace
                     ELSE db[d].owner.namespace) = k[1]}

\* the finalizer of Team k is removed in this step
TeamBarrierDropped(k) ==
    /\ teams[k].exists
    /\ teamObj[k].finalizer
    /\ ~teams'[k].exists

\* the call of TeamReconciler.Reconcile for k put on record in this step
\* refused the deletion
TeamDeletionRefused(k) ==
    /\ Len(passes'[TeamId(k)]) > Len(passes[TeamId(k)])
    /\ passes'[TeamId(k)][Len(passes'[TeamId(k)])].step = "Delete"
    /\ passes'[TeamId(k)][Len(passes'[TeamId(k)])].returned = "error"

\* C29: the finalizer of a Team is removed only when no Database lists the
\* Team as its owner, and the error of a refused deletion states how many
\* Databases list the Team as their owner.
C29_TeamCleanup ==
    [][\A k \in TeamKeys :
         /\ TeamBarrierDropped(k) => Descendants(k) = {}
         /\ TeamDeletionRefused(k) =>
               passes'[TeamId(k)][Len(passes'[TeamId(k)])].count
                   = Cardinality(Descendants(k))]_vars


\* the records that carry the label tenant=t
Labelled(t) == {d \in DBs : db[d].exists /\ db[d].label = t}

\* the finalizer of Tenant t is removed in this step
TenantBarrierDropped(t) ==
    /\ t \in tenants
    /\ tenantObj[t].finalizer
    /\ t \notin tenants'

\* C30: the finalizer of a Tenant is removed only in a step that starts
\* with no record carrying the label tenant=<name>.
C30_TenantCleanup ==
    [][\A t \in TenantNames :
         TenantBarrierDropped(t) => Labelled(t) = {}]_vars


\* the last exchange of the receiver applied a callback
Applied == resp.code = 200

\* C31: a callback with status failed that was applied to a Database whose
\* phase was Ready left the phase Ready.
C31_FailedKeepsReady ==
    Applied =>
        \A d \in DBs :
            (/\ Decode(resp.req.body).status = "failed"
             /\ resp.before[d].exists
             /\ resp.before[d].deploymentId = Decode(resp.req.body).deploymentId
             /\ resp.before[d].phase = "Ready")
                => resp.after[d].phase = "Ready"


\* the last exchange got as far as the lookup of the record: the request
\* was a POST that decoded, verified and named a routed resource type
LookedUp == resp.code \notin {0, 400, 401, 405}

\* the records of payload.namespace that carried the deployment identifier
\* of the last request when it arrived
Hits ==
    {d \in DBs : /\ resp.before[d].exists
                 /\ Decode(resp.req.body).namespace = DbNamespace
                 /\ resp.before[d].deploymentId = Decode(resp.req.body).deploymentId}

\* C32: a callback that reaches the lookup and matches no record is
\* answered 404, one that matches more than one record is answered 500,
\* and in both cases no record is changed.
C32_LookupExactlyOne ==
    LookedUp =>
        /\ Hits = {} => (resp.code = 404 /\ resp.after = resp.before)
        /\ Cardinality(Hits) > 1 => (resp.code = 500 /\ resp.after = resp.before)


\* a call of Reconcile for d went through the provisioning step, or found
\* it done, and returned nil
PassedThrough(d) ==
    \E i \in 1..Len(passes[d]) :
        /\ passes[d][i].step \in {"Provision", "Idle"}
        /\ passes[d][i].returned = "nil"

\* C33: once a call of Reconcile for a Database has completed through the
\* provisioning step without error, status.observedGeneration of the
\* record equals metadata.generation (nobody edits the spec under
\* SpecQuiet, so the generation is the one that call saw).
C33_ObservedEqualsGeneration ==
    \A d \in DBs :
        (db[d].exists /\ PassedThrough(d))
            => db[d].observedGeneration = db[d].generation


\* whether resolveTenant can follow n owner references upward from obj: each
\* owner named is a Team or an Application the store holds
RECURSIVE Follows(_, _)
Follows(obj, n) ==
    IF n = 0 THEN TRUE
    ELSE LET owner == OwnerOf(obj)
             ns == OwnerLookupNamespace(obj)
         IN IF obj.kind \notin {"Application", "Database"} THEN FALSE
            ELSE IF owner.kind = "Team" /\ TeamExists(ns, owner.name)
            THEN Follows(Obj("Team", ns, owner.name), n - 1)
            ELSE IF owner.kind = "Application" /\ AppExists(ns, owner.name)
            THEN Follows(Obj("Application", ns, owner.name), n - 1)
            ELSE FALSE

\* an owner chain that never ends: it can be followed for more hops than
\* the store holds records
Cyclic(obj) == Follows(obj, Cardinality(AppKeys) + Cardinality(TeamKeys) + 2)

\* the reasons resolveTenant gives for a missing owner or a missing tenant
MissingReasons ==
    {"referenced tenant not found", "owner team not found",
     "owner application not found", "label-tenant-missing", "tenant unresolved"}

\* C34: on a cyclic owner chain ResolveTenant terminates with the answer
\* unresolvable and the depth-budget reason, which is none of the reasons
\* given for a missing owner or a missing tenant; the depth-budget reason is
\* returned exactly when the chain goes on past six owner hops, so no record
\* more than six hops up is ever examined.
C34_CycleHitsDepthBudget ==
    resolved.asked =>
        /\ Cyclic(resolved.obj) =>
              (/\ ~resolved.result.ok
               /\ resolved.result.reason = "exceeded max depth"
               /\ resolved.result.reason \notin MissingReasons)
        /\ resolved.result.reason = "exceeded max depth"
              <=> Follows(resolved.obj, 6 + 1)

\* C34 witness: the resolver was asked about a record on a cyclic owner
\* chain and answered with the depth-budget reason
C34_Witness ==
    /\ resolved.asked
    /\ Cyclic(resolved.obj)
    /\ resolved.result.reason = "exceeded max depth"


(***************************************************************************)
(* The retry specification: db1 and db2 of tenant acme, finalizer and      *)
(* tenant label in place, are provisioned through healthy brokers while    *)
(* the manager crashes and status writes fail; failed calls are retried.   *)
(***************************************************************************)
\* Reconcile, lines 153-159, after provisionDatabase (lines 356-373) failed
\* to write the status for a passing reason (timeout, server unavailable):
\* the object in hand already carries deploymentId and brokerRef, the phase
\* is set to Failed on it and this second status update goes through; the
\* error of the first is returned
ReconcileRecordLate(d) ==
    /\ Returned(d, "error")
    /\ UNCHANGED ctlVars
    /\ UNCHANGED procVars
    /\ inflight[d].active
    /\ db[d].exists
    /\ ~inflight[d].stale
    /\ db' = [db EXCEPT ![d].deploymentId = inflight[d].id,
                        ![d].brokerRef =
                            [name |-> inflight[d].broker,
                             namespace |-> BrokerNamespace(inflight[d].broker)],
                        ![d].phase = "Failed"]
    /\ inflight' = [inflight EXCEPT ![d] = NoFlight]
    /\ UNCHANGED <<brokers, storeVars, registryVars, now, historyVars, obsVars>>

InitRetry ==
    /\ db = [d \in DBs |-> LabelledDb("acme")]
    /\ brokers = [b \in Brokers |-> ReadyBroker(b)]
    /\ tenants = {"acme"}
    /\ InitStore
    /\ brokerCache = [b \in Brokers |-> NoBroker]
    /\ lastRefresh = ZeroTime
    /\ now = StartTime
    /\ InitHistory

NextRetry ==
    \/ \E d \in DBs :
          \/ ReconcileIdle(d)
          \/ ReconcileProvisionFails(d)
          \/ ReconcileDispatch(d)
          \/ ReconcileRecord(d)
          \/ ReconcileRecordLate(d)
          \/ ReconcileCrash(d)
    \/ Tick

SpecRetry == InitRetry /\ [][NextRetry]_vars

\* the first call of Reconcile for d had a broker accept the provision
\* request and then failed: it returned an error, or never returned
FailedAfterAccept(d) ==
    /\ Len(passes[d]) > 0
    /\ passes[d][1].step = "Provision"
    /\ passes[d][1].brokerCall
    /\ passes[d][1].returned \in {"error", "pending"}
    /\ ~inflight[d].active
    /\ \E dep \in deployments : dep.db = d

\* C35: when a call of Reconcile fails after a broker accepted the
\* provision request (the manager crashes or the status write fails), the
\* next call for the record is a provisioning call again: it does not find
\* a deployment recorded.
C35_RetryDispatchesAgain ==
    \A d \in DBs :
        (FailedAfterAccept(d) /\ Len(passes[d]) > 1)
            => passes[d][2].step = "Provision"


(***************************************************************************)
(* The report specification: db1 and db2 are dispatched and recorded while *)
(* the brokers that accepted them report Ready through the callback        *)
(* client.  The reconciler's status write and the broker's attempts are    *)
(* scheduled fairly: the work queue runs a pending call to its end, the    *)
(* client makes its attempts one after the other.                          *)
(***************************************************************************)
\* NewCallbackClient: the attempts NotifyStatus makes
maxRetries == 3

\* one attempt of NotifyStatus for the deployment dep, reported Ready: the
\* request is signed and sent, the receiver handles it; a 2xx answer ends
\* the call, any other answer leaves the next attempt, while there is one
CallbackAttempt(dep) ==
    /\ dep \in deployments
    /\ dep \notin notify.delivered
    /\ notify.attempts[dep] < maxRetries
    /\ LET req == NotifyStatus(dep.broker, StatusPayload(dep, "Ready"))
       IN /\ handleCallback(req)
          /\ notify' =
                [attempts |-> [notify.attempts EXCEPT ![dep] = @ + 1],
                 delivered |-> IF CallbackCode(req) \in 200..299
                               THEN notify.delivered \cup {dep}
                               ELSE notify.delivered]
    /\ UNCHANGED <<resp, refresh>>

InitNotify == InitRetry

NextNotify ==
    \/ \E d \in DBs : ReconcileDispatch(d)
    \/ \E d \in DBs : ReconcileRecord(d)
    \/ \E d \in DBs : ReconcileIdle(d)
    \/ \E dep \in AllDeployments : CallbackAttempt(dep)
    \/ Tick

SpecNotify ==
    /\ InitNotify
    /\ [][NextNotify]_vars
    /\ WF_vars(\E d \in DBs : ReconcileRecord(d))
    /\ WF_vars(\E dep \in AllDeployments : CallbackAttempt(dep))

\* C36: once a broker accepted the provision request of a Database and
\* reports Ready through its callback client, the record eventually is in
\* phase Ready, however the attempts fall around the status write that
\* records the deployment.
C36_AcceptedReachesReady ==
    \A d \in DBs :
        (\E dep \in deployments : dep.db = d) ~> (db[d].phase = "Ready")


(***************************************************************************)
(* The deletion specification: the cleanup specification with the         *)
(* scheduling the work queue gives it.  A Reconcile call that returned an  *)
(* error is queued again, so a record that is being deleted keeps getting  *)
(* its call; and a broker that is asked again and again answers 2xx in the *)
(* end.                                                                    *)
(***************************************************************************)
\* one call of handleDeletion for d, whatever comes of it
DeletePass(d) ==
    \/ ReconcileDeleteUnprovisioned(d)
    \/ ReconcileDeleteSkip(d)
    \/ ReconcileDeleteAcked(d)
    \/ ReconcileDeleteFails(d)

SpecDeletion ==
    /\ InitCleanup
    /\ [][NextCleanup]_vars
    /\ \A d \in DBs : WF_vars(DeletePass(d))
    /\ \A d \in DBs : SF_vars(ReconcileDeleteAcked(d))

\* C37: a Database that carries a deletion timestamp and the finalizer is
\* eventually rid of the finalizer and gone from the store, when its calls
\* of Reconcile are retried and the broker asked to deprovision answers 2xx
\* in the end.
C37_DeletionProgress ==
    \A d \in DBs :
        (db[d].exists /\ db[d].deleting /\ db[d].finalizer)
            ~> (~db[d].exists /\ removal[d].gone)

\* C37 witness: db1 is gone after a deprovision call that failed and a
\* retry that the broker acknowledged
C37_Witness ==
    /\ removal["db1"].gone
    /\ ~db["db1"].exists
    /\ passes["db1"] = <<Pass("Delete", "error", TRUE), Pass("Delete", "nil", TRUE)>>
    /\ \E ack \in deprovAcks : ack.db = "db1"


(***************************************************************************)
(* The recovery specification: Teams that hold their finalizer are         *)
(* reconciled while their Tenant is missing and after it was created.      *)
(***************************************************************************)
InitRevive ==
    /\ db = [d \in DBs |-> NewDb(NoOwner)]
    /\ brokers = [b \in Brokers |-> ReadyBroker(b)]
    /\ tenants \in {{}, {"acme"}}
    /\ \E label \in {"", "acme"} :
          nsObj = [n \in Namespaces |->
                     [exists |-> TRUE,
                      tenantLabel |-> IF n = "dev" THEN label ELSE ""]]
    /\ \E ref \in [TeamKeys -> {"", "acme", "beta"}] :
          teams = [k \in TeamKeys |-> Team(ref[k])]
    /\ apps = [k \in AppKeys |-> [exists |-> FALSE, owner |-> NoOwner]]
    /\ brokerCache = [b \in Brokers |-> NoBroker]
    /\ lastRefresh = ZeroTime
    /\ now = StartTime
    /\ inflight = [d \in DBs |-> NoFlight]
    /\ deployments = {}
    /\ deprovAcks = {}
    /\ everProv = {}
    /\ removal = [d \in DBs |-> NoRemoval]
    /\ resp = NoResp
    /\ resolved = NotAsked
    /\ passes = [k \in DBs \cup TenantNames \cup {TeamId(t) : t \in TeamKeys} |-> <<>>]
    /\ picked = NotPicked
    /\ probe = [b \in Brokers |-> NoProbe]
    /\ tenantObj = [t \in TenantNames |-> NewTenant]
    /\ tenantNs = [t \in TenantNames |-> NoNamespace]
    /\ teamObj = [k \in TeamKeys |-> [NewTeam EXCEPT !.finalizer = TRUE]]
    /\ notify = NoNotify
    /\ refresh = NoRefresh

\* a user writes spec.tenantRef of a Team
UserSetTenantRef(k, t) ==
    /\ teams[k].exists
    /\ teams[k].tenantRef # t
    /\ teams' = [teams EXCEPT ![k].tenantRef = t]
    /\ UNCHANGED <<db, brokers, tenants, nsObj, apps, registryVars, now,
                   inflight, historyVars, obsVars, passes, ctlVars, procVars>>

NextRevive ==
    \/ \E k \in TeamKeys : TeamSuspendMissingTenant(k)
    \/ \E k \in TeamKeys : TeamInferTenant(k)
    \/ \E k \in TeamKeys : TeamSuspendNoTenant(k)
    \/ \E k \in TeamKeys : TeamActivate(k)
    \/ \E k \in TeamKeys : UserSetTenantRef(k, "acme")
    \/ CreateTenant("acme")

SpecRevive == InitRevive /\ [][NextRevive]_vars

\* the calls of TeamReconciler.Reconcile for k so far: one that suspended
\* the Team, then one that found its Tenant
Revived(k) ==
    /\ Len(passes[TeamId(k)]) = 2
    /\ passes[TeamId(k)][1].step = "Suspend"
    /\ passes[TeamId(k)][2].step = "Active"

\* C38: a Team that was suspended because its tenant could not be
\* determined is no longer in phase Suspended after a call of Reconcile
\* that found the tenant.
C38_SuspendedIsLeft ==
    \A k \in TeamKeys : Revived(k) => teamObj[k].phase # "Suspended"


(***************************************************************************)
(* The refresh specification: two goroutines call SelectBroker and         *)
(* RefreshCache on one Registry while Broker records are probed and        *)
(* retired.  RefreshCache is split where the source splits it: the list    *)
(* of the store is read outside the lock, the cache is replaced inside.    *)
(***************************************************************************)
\* RefreshCache, lines 206-209: caller c lists the Broker records; it came
\* here on its own (forced) or from refreshCacheIfNeeded, which found the
\* cache expired under the read lock
RefreshList(c, forced) ==
    /\ ~refresh.list[c].active
    /\ forced \/ needsRefresh
    /\ refresh' = [list |-> [refresh.list EXCEPT ![c] =
                                [active |-> TRUE, items |-> brokers]],
                   latest |-> brokers,
                   listed |-> refresh.listed \cup {brokers}]
    /\ UNCHANGED <<db, brokers, storeVars, registryVars, now, inflight,
                   historyVars, obsVars, passes, ctlVars, notify>>

\* RefreshCache, lines 211-225: under the write lock the cache is replaced
\* by the map built from the caller's list and lastRefresh is set
RefreshStore(c) ==
    /\ refresh.list[c].active
    /\ brokerCache' = refresh.list[c].items
    /\ lastRefresh' = now
    /\ refresh' = [refresh EXCEPT !.list[c] = NoList]
    /\ UNCHANGED <<db, brokers, storeVars, now, inflight, historyVars,
                   obsVars, passes, ctlVars, notify>>

\* SelectBroker, lines 66-87: under the read lock caller c filters and
\* scores the cache as it stands
ReadCache(c, criteria) ==
    /\ ~refresh.list[c].active
    /\ ~needsRefresh
    /\ \/ \E b \in selectBest(brokerCache, Candidates(brokerCache, criteria)) :
             picked' = [asked |-> TRUE, criteria |-> criteria,
                        cache |-> brokerCache, at |-> now, broker |-> b]
       \/ /\ Candidates(brokerCache, criteria) = {}
          /\ picked' = [asked |-> TRUE, criteria |-> criteria,
                        cache |-> brokerCache, at |-> now, broker |-> ""]
    /\ UNCHANGED <<db, brokers, storeVars, registryVars, now, inflight,
                   historyVars, obsVars, passes, probe, tenantObj, tenantNs,
                   teamObj, procVars>>

InitRefresh ==
    /\ db = [d \in DBs |-> AbsentDb]
    /\ brokers = [b \in Brokers |-> ReadyBroker(b)]
    /\ tenants = {}
    /\ InitStore
    /\ brokerCache = [b \in Brokers |-> NoBroker]
    /\ lastRefresh = ZeroTime
    /\ now = StartTime
    /\ InitHistory

NextRefresh ==
    \/ \E c \in Callers, forced \in BOOLEAN : RefreshList(c, forced)
    \/ \E c \in Callers : RefreshStore(c)
    \/ \E c \in Callers : ReadCache(c, Criteria("Database", "", "", "postgresql"))
    \/ \E b \in Brokers : DeleteBroker(b)
    \/ Tick

SpecRefresh == InitRefresh /\ [][NextRefresh]_vars

\* no call of RefreshCache is under way
RefreshesDone == \A c \in Callers : ~refresh.list[c].active

\* C39: every cache a reader of the registry saw is the complete map of one
\* list of the store, and when no refresh is under way the cache is the
\* result of the most recent list: a refresh that listed earlier has not
\* replaced what a refresh that listed later stored.
C39_LatestListWins ==
    /\ picked.asked => picked.cache \in refresh.listed
    /\ RefreshesDone => brokerCache = refresh.latest


\* the values of status.phase of a Database
DatabasePhases ==
    {"Pending", "Provisioning", "Ready", "Failed", "Deleting", "Suspended"}

\* C40: status.phase of a Database is always unset or one of Pending,
\* Provisioning, Ready, Failed, Deleting, Suspended; a phase outside that
\* set that a callback carries (Deleted, say) is never stored.
C40_PhaseInSet ==
    \A d \in DBs : db[d].exists => db[d].phase \in DatabasePhases \cup {""}

=============================================================================
